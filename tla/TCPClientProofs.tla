--------------------------- MODULE TCPClientProofs ---------------------------
(***************************************************************************)
(* The safety of TCPClient, for every set of session ids and every bound:  *)
(* ClientInv is inductive, and implies what the application and libuv rely *)
(* on.  Then what a step may never do: free a session under libuv, end the *)
(* mutual wait of a deletion, or orphan a session otherwise than by a      *)
(* failed connection attempt; and that every step is one of the contract   *)
(* (ClientContract), or a stutter.                                         *)
(*                                                                         *)
(* The argument is about the streams Messages and Operations.  Whatever    *)
(* the threads do, they append to a stream, take its head, or turn one     *)
(* entry of the map into another while saying something of it; the lemmas  *)
(* after those about types say when SessionInv survives each of these.     *)
(***************************************************************************)
EXTENDS TCPClientInv, Streams, SequenceTheorems, FiniteSetTheorems, TLAPS

-----------------------------------------------------------------------------
(* Type correctness.                                                       *)

(* What the loop thread makes of an entry is an entry. *)
LEMMA EntryOperators ==
    ASSUME NEW data \in clientSessionData
    PROVE  /\ SocketDisconnect(data) \in clientSessionData
           /\ ExecuteDisconnect(data) \in clientSessionData
           /\ \A wrote \in BOOLEAN : ExecuteSend(data, wrote) \in clientSessionData
           /\ Connecting(data) \in clientSessionData
           /\ Closed(data) \in clientSessionData
           /\ NoEntry(data.incarnation) \in clientSessionData
           /\ NoEntry(data.incarnation + 1) \in clientSessionData
           /\ data.incarnation \in Nat
<1>1. data.incarnation \in Nat /\ data.tcp \in TcpHandle
  BY DEF clientSessionData
<1>2. \A d \in clientSessionData : SocketDisconnect(d) \in clientSessionData
  BY DEF SocketDisconnect, clientSessionData, TcpHandle
<1>3. \A d \in clientSessionData : ExecuteDisconnect(d) \in clientSessionData
  <2>1. \A d \in clientSessionData : [d EXCEPT !.isOnline = FALSE] \in clientSessionData
    BY DEF clientSessionData
  <2> QED BY <2>1, <1>2 DEF ExecuteDisconnect
<1>4. \A wrote \in BOOLEAN : ExecuteSend(data, wrote) \in clientSessionData
  BY <1>3 DEF ExecuteSend
<1>5. Connecting(data) \in clientSessionData
  BY DEF Connecting, clientSessionData, ConnectState, TcpHandle
<1>6. Closed(data) \in clientSessionData
  BY DEF Closed, OnSocketClose, clientSessionData, ConnectState
<1>7. \A n \in Nat : NoEntry(n) \in clientSessionData
  BY DEF NoEntry, clientSessionData, ConnectState, TcpHandle
<1> QED BY <1>1, <1>2, <1>3, <1>4, <1>5, <1>6, <1>7

(* Messages and operations as the actions make them. *)
LEMMA MessageTypes ==
    /\ \A s \in SessionIDs, data \in clientSessionData, type \in NetThreadMsgType \ {"EXIT_LOOP"} :
          Msg(type, s, data) \in NetThreadMsg
    /\ ExitLoop \in NetThreadMsg
  BY SessionAssumption DEF Msg, ExitLoop, NetThreadMsg, NetThreadMsgType, clientSessionData

LEMMA OperationTypes ==
    /\ \A s \in SessionIDs, type \in OperationType : Op(type, s) \in SessionOperation
    /\ Op("CLIENT_CLOSE", NoSession) \in SessionOperation
    /\ \A s \in SessionIDs \cup {NoSession}, auto \in BOOLEAN : AutoOp(s, auto) \in SessionOperation
  BY SessionAssumption DEF Op, AutoOp, SessionOperation, OperationType

(* The frames that most actions are built from. *)
LEMMA PushOperationType ==
    ASSUME TypeOK, NEW op \in SessionOperation, PushOperation(op)
    PROVE  m_operationQue' \in Seq(SessionOperation)
  BY AppendProperties DEF TypeOK, PushOperation

LEMMA CallType ==
    ASSUME TypeOK, NEW name, NEW op \in SessionOperation, Call(name, op),
           m_isStop' \in BOOLEAN, m_reconnect' \in BOOLEAN, connects' \in 0..MaxConnects
    PROVE  TypeOK'
  BY PushOperationType DEF TypeOK, Call, loopVars

LEMMA ExecutingType ==
    ASSUME TypeOK, NEW type, Executing(type)
    PROVE  /\ curOperation \in SessionOperation
           /\ m_operationDispatchQue' \in Seq(SessionOperation)
  BY HeadTailProperties DEF TypeOK, Executing, curOperation

(* An operation that is not for all sessions names one. *)
LEMMA TargetType ==
    ASSUME TypeOK, NEW type, type \notin {"SET_AUTO_CONNECT", "CLIENT_CLOSE"}, Executing(type)
    PROVE  /\ curOperation.sessionID \in SessionIDs
           /\ Target \in clientSessionData
<1>1. curOperation \in SessionOperation /\ curOperation.type = type
  BY ExecutingType DEF Executing
<1>2. curOperation.sessionID \in SessionIDs
  BY <1>1 DEF SessionOperation
<1> QED BY <1>2 DEF Target, TypeOK

LEMMA ExecutedType ==
    ASSUME TypeOK, NEW type, type \notin {"SET_AUTO_CONNECT", "CLIENT_CLOSE"}, Executing(type),
           NEW data \in clientSessionData, NEW msgs \in Seq(NetThreadMsg), Executed(data, msgs)
    PROVE  TypeOK'
<1>1. m_operationDispatchQue' \in Seq(SessionOperation)
  BY ExecutingType
<1>2. m_allSessionMap' \in [SessionIDs -> clientSessionData]
  BY DEF Executed, TypeOK
<1>3. m_msgQue' \in Seq(NetThreadMsg)
  BY ConcatProperties DEF Executed, TypeOK
<1> QED BY <1>1, <1>2, <1>3 DEF TypeOK, Executing, Executed, appVars

LEMMA CallbackType ==
    ASSUME TypeOK, NEW s \in SessionIDs, NEW data \in clientSessionData,
           NEW msgs \in Seq(NetThreadMsg), Callback(s, data, msgs)
    PROVE  TypeOK'
<1>1. m_allSessionMap' \in [SessionIDs -> clientSessionData]
  BY DEF Callback, TypeOK
<1>2. m_msgQue' \in Seq(NetThreadMsg)
  BY ConcatProperties DEF Callback, TypeOK
<1> QED BY <1>1, <1>2 DEF TypeOK, Callback, appVars

LEMMA OneMessage ==
    ASSUME NEW s \in SessionIDs, NEW data \in clientSessionData,
           NEW type \in NetThreadMsgType \ {"EXIT_LOOP"}
    PROVE  <<Msg(type, s, data)>> \in Seq(NetThreadMsg)
  BY MessageTypes

LEMMA EmptyMessages == <<>> \in Seq(NetThreadMsg)
  BY EmptySeq

LEMMA CloseMessages ==
    ASSUME NEW s \in SessionIDs, NEW data \in clientSessionData
    PROVE  CloseMsgs(s, data) \in Seq(NetThreadMsg)
<1>1. <<Msg("DIS_CONNECT", s, data)>> \in Seq(NetThreadMsg)
  BY OneMessage DEF NetThreadMsgType
<1>2. <<Msg("REMOVE_SESSION", s, data)>> \in Seq(NetThreadMsg)
  BY OneMessage DEF NetThreadMsgType
<1> QED BY <1>1, <1>2, EmptyMessages, ConcatProperties DEF CloseMsgs

(* The messages of a sweep, one per session it removes. *)
LEMMA SweepMessages ==
    ASSUME TypeOK, NEW order \in SetToSeqs(ToRemove)
    PROVE  [i \in DOMAIN order |->
              Msg("REMOVE_SESSION", order[i], m_allSessionMap[order[i]])] \in Seq(NetThreadMsg)
<1>1. IsFiniteSet(ToRemove) /\ ToRemove \subseteq SessionIDs
  BY SessionAssumption, FS_Subset DEF ToRemove
<1>2. Cardinality(ToRemove) \in Nat
  BY <1>1, FS_CardinalityType
<1>3. DOMAIN order = 1 .. Cardinality(ToRemove) /\ \A i \in DOMAIN order : order[i] \in SessionIDs
  BY <1>1 DEF SetToSeqs
<1>4. \A i \in DOMAIN order :
         Msg("REMOVE_SESSION", order[i], m_allSessionMap[order[i]]) \in NetThreadMsg
  BY <1>3, MessageTypes DEF TypeOK, NetThreadMsgType
<1> QED BY <1>2, <1>3, <1>4, SeqDef

LEMMA InitType == Init => TypeOK
<1>1. NoEntry(0) \in clientSessionData
  BY DEF NoEntry, clientSessionData, ConnectState, TcpHandle
<1>2. 0 \in 0..MaxConnects
  BY BoundsAssumption
<1>3. <<>> \in Seq(NetThreadMsg) /\ <<>> \in Seq(SessionOperation)
  BY EmptySeq
<1> QED BY <1>1, <1>2, <1>3 DEF Init, TypeOK, ClientStage

(* The application's thread. *)
LEMMA ApiCallType == TypeOK /\ ApiCall => TypeOK'
<1> SUFFICES ASSUME TypeOK, ApiCall PROVE TypeOK'
  OBVIOUS
<1>1. ASSUME NEW s \in SessionIDs, Connect(s) PROVE TypeOK'
  <2>1. Op("CONNECT", s) \in SessionOperation
    BY OperationTypes DEF OperationType
  <2> QED BY <1>1, <2>1, CallType, BoundsAssumption DEF Connect, TypeOK
<1>2. ASSUME NEW s \in SessionIDs, Disconnect(s) \/ RemoveSession(s) \/ Send(s) PROVE TypeOK'
  <2>1. \A type \in {"DISCONNECT", "REMOVE_SESSION", "SENDDATA"} : Op(type, s) \in SessionOperation
    BY OperationTypes DEF OperationType
  <2> QED BY <1>2, <2>1, CallType DEF Disconnect, RemoveSession, Send, TypeOK
<1>3. ASSUME NEW s \in SessionIDs, NEW auto \in BOOLEAN, SetAutoReconnectBySessionID(s, auto)
      PROVE TypeOK'
  BY <1>3, OperationTypes, CallType DEF SetAutoReconnectBySessionID, TypeOK
<1>4. ASSUME NEW auto \in BOOLEAN, SetAutoReconnect(auto) PROVE TypeOK'
  <2>1. m_reconnect' \in BOOLEAN /\ m_isStop' \in BOOLEAN /\ connects' \in 0..MaxConnects
    BY <1>4 DEF SetAutoReconnect, TypeOK
  <2>2. AutoOp(NoSession, auto) \in SessionOperation
    BY OperationTypes
  <2> QED BY <1>4, <2>1, <2>2, CallType DEF SetAutoReconnect
<1>5. CASE CloseClient
  <2>1. m_operationQue' \in Seq(SessionOperation)
    BY <1>5, OperationTypes, PushOperationType DEF CloseClient
  <2> QED BY <1>5, <2>1 DEF CloseClient, TypeOK, loopVars
<1>6. CASE Delete
  <2>1. m_operationQue' \in Seq(SessionOperation)
    BY <1>6, OperationTypes, PushOperationType DEF Delete, TypeOK
  <2> QED BY <1>6, <2>1 DEF Delete, TypeOK, loopVars
<1> QED BY <1>1, <1>2, <1>3, <1>4, <1>5, <1>6 DEF ApiCall

LEMMA UpdateFrameType == TypeOK /\ (UpdateFrame \/ DeleteReturns) => TypeOK'
<1> SUFFICES ASSUME TypeOK, UpdateFrame \/ DeleteReturns PROVE TypeOK'
  OBVIOUS
<1>1. CASE GetThreadMsg
  BY <1>1, EmptySeq DEF GetThreadMsg, TypeOK, loopVars
<1>2. CASE DispatchMsg
  <2> DEFINE m == Head(m_msgDispatchQue)
  <2>1. m \in NetThreadMsg /\ m_msgDispatchQue' \in Seq(NetThreadMsg)
    BY <1>2, HeadTailProperties DEF DispatchMsg, TypeOK
  <2>2. m.type # "EXIT_LOOP" => m.sessionID \in SessionIDs
    BY <2>1 DEF NetThreadMsg
  <2>3. m.type \in NetThreadMsgType \ {"EXIT_LOOP"} =>
           Told(m.type) \in {"none", "up", "talking", "failed", "down", "removed"}
    BY DEF Told, NetThreadMsgType
  <2>4. m.type \in NetThreadMsgType
    BY <2>1 DEF NetThreadMsg
  <2>5. told' \in [SessionIDs -> {"none", "up", "talking", "failed", "down", "removed"}]
    BY <1>2, <2>2, <2>3, <2>4 DEF DispatchMsg, TypeOK
  <2>6. m_operationQue' \in Seq(SessionOperation)
    <3>1. m.type = "REMOVE_SESSION" => Op("DELETE_SESSION", m.sessionID) \in SessionOperation
      BY <2>2, OperationTypes DEF OperationType
    <3> QED BY <1>2, <3>1, PushOperationType DEF DispatchMsg, TypeOK
  <2>7. closeClientTag' \in BOOLEAN
    BY <1>2 DEF DispatchMsg, TypeOK
  <2> QED BY <1>2, <2>1, <2>5, <2>6, <2>7 DEF DispatchMsg, TypeOK, loopVars
<1>3. CASE ClientCloseCall
  BY <1>3 DEF ClientCloseCall, TypeOK, loopVars
<1>4. CASE DeleteReturns
  <2>1. m_allSessionMap' \in [SessionIDs -> clientSessionData]
    BY <1>4, EntryOperators DEF DeleteReturns, TypeOK
  <2> QED BY <1>4, <2>1, EmptySeq DEF DeleteReturns, TypeOK
<1> QED BY <1>1, <1>2, <1>3, <1>4 DEF UpdateFrame

(* The loop thread. *)
LEMMA ExecuteOperationType == TypeOK /\ ExecuteOperation => TypeOK'
<1> SUFFICES ASSUME TypeOK, ExecuteOperation PROVE TypeOK'
  OBVIOUS
<1> USE EmptyMessages
<1>1. CASE TakeOperations
  BY <1>1, EmptySeq DEF TakeOperations, TypeOK, appVars
<1>2. CASE ExecuteSendData
  <2>1. Target \in clientSessionData
    BY <1>2, TargetType DEF ExecuteSendData
  <2> QED BY <1>2, <2>1, EntryOperators, ExecutedType DEF ExecuteSendData
<1>3. CASE ExecuteDisconnectOp
  <2>1. Target \in clientSessionData
    BY <1>3, TargetType DEF ExecuteDisconnectOp
  <2>2. [Target EXCEPT !.connectState = "DISCONNECTING"] \in clientSessionData
    BY <2>1 DEF clientSessionData, ConnectState
  <2> QED BY <1>3, <2>1, <2>2, EntryOperators, ExecutedType DEF ExecuteDisconnectOp
<1>4. CASE CreateNewConnect
  <2>1. Target \in clientSessionData /\ curOperation.sessionID \in SessionIDs
    BY <1>4, TargetType DEF CreateNewConnect
  <2>2. NewSession \in clientSessionData
    <3>1. NoEntry(Target.incarnation + 1) \in clientSessionData
      BY <2>1, EntryOperators
    <3> QED BY <3>1 DEF NewSession, clientSessionData, TypeOK
  <2>3. ASSUME NEW data \in clientSessionData, NEW started \in BOOLEAN, StartConnect(data, started)
        PROVE TypeOK'
    <3>1. TargetMsg("CONNECT_FAIL", data) \in Seq(NetThreadMsg)
      BY <2>1, OneMessage DEF TargetMsg, NetThreadMsgType
    <3> QED BY <1>4, <2>3, <3>1, EntryOperators, ExecutedType DEF StartConnect, CreateNewConnect
  <2> QED BY <1>4, <2>1, <2>2, <2>3, ExecutedType DEF CreateNewConnect
<1>5. CASE ExecuteSetAutoConnect
  <2>1. curOperation \in SessionOperation /\ m_operationDispatchQue' \in Seq(SessionOperation)
    BY <1>5, ExecutingType DEF ExecuteSetAutoConnect
  <2>2. curOperation.isAuto \in BOOLEAN
    BY <2>1 DEF SessionOperation
  <2>3. \A data \in clientSessionData :
           [data EXCEPT !.reconnect = curOperation.isAuto] \in clientSessionData
    BY <2>2 DEF clientSessionData
  <2>4. m_allSessionMap' \in [SessionIDs -> clientSessionData]
    BY <1>5, <2>3 DEF ExecuteSetAutoConnect, TypeOK
  <2> QED BY <1>5, <2>1, <2>4 DEF ExecuteSetAutoConnect, Executing, TypeOK, appVars
<1>6. CASE ExecuteClientClose
  <2>1. m_operationDispatchQue' \in Seq(SessionOperation)
    BY <1>6, ExecutingType DEF ExecuteClientClose
  <2> QED BY <1>6, <2>1 DEF ExecuteClientClose, Executing, TypeOK, ClientStage, appVars
<1>7. CASE ExecuteRemoveSession
  <2>1. Target \in clientSessionData /\ curOperation.sessionID \in SessionIDs
    BY <1>7, TargetType DEF ExecuteRemoveSession
  <2>2. [Target EXCEPT !.removeTag = TRUE] \in clientSessionData
    BY <2>1 DEF clientSessionData
  <2>3. TargetMsg("REMOVE_SESSION", Target) \in Seq(NetThreadMsg)
    BY <2>1, OneMessage DEF TargetMsg, NetThreadMsgType
  <2> QED BY <1>7, <2>1, <2>2, <2>3, EntryOperators, ExecutedType DEF ExecuteRemoveSession
<1>8. CASE ExecuteDeleteSession
  <2>1. Target \in clientSessionData
    BY <1>8, TargetType DEF ExecuteDeleteSession
  <2> QED BY <1>8, <2>1, EntryOperators, ExecutedType DEF ExecuteDeleteSession, Deleted
<1> QED BY <1>1, <1>2, <1>3, <1>4, <1>5, <1>6, <1>7, <1>8 DEF ExecuteOperation

LEMMA CallbacksType ==
    ASSUME TypeOK, NEW s \in SessionIDs
    PROVE  /\ Reconnect(s) => TypeOK'
           /\ HeartbeatLost(s) \/ OnIllegalData(s) \/ OnEof(s) => TypeOK'
           /\ OnSessionRecvData(s) => TypeOK'
           /\ OnIllegalHeart(s) => TypeOK'
           /\ OnSessionClose(s) => TypeOK'
           /\ \A outcome \in Outcomes : KernelConnect(s, outcome) => TypeOK'
           /\ \A readStarted \in BOOLEAN : OnSocketConnect(s, readStarted) => TypeOK'
<1> USE EmptyMessages
<1>1. m_allSessionMap[s] \in clientSessionData
  BY DEF TypeOK
<1>2. Reconnect(s) => TypeOK'
  BY <1>1, EntryOperators, CallbackType DEF Reconnect
<1>3. HeartbeatLost(s) \/ OnIllegalData(s) \/ OnEof(s) => TypeOK'
  BY <1>1, EntryOperators, CallbackType DEF HeartbeatLost, OnIllegalData, OnEof
<1>4. OnSessionRecvData(s) => TypeOK'
  <2>1. <<Msg("RECV_DATA", s, m_allSessionMap[s])>> \in Seq(NetThreadMsg)
    BY <1>1, OneMessage DEF NetThreadMsgType
  <2> QED BY <1>1, <2>1, CallbackType DEF OnSessionRecvData
<1>5. OnIllegalHeart(s) => TypeOK'
  <2>1. Op("DISCONNECT", s) \in SessionOperation
    BY OperationTypes DEF OperationType
  <2> QED BY <2>1, PushOperationType DEF OnIllegalHeart, TypeOK, appVars, loopVars
<1>6. OnSessionClose(s) => TypeOK'
  BY <1>1, EntryOperators, CloseMessages, CallbackType DEF OnSessionClose
<1>7. ASSUME NEW outcome \in Outcomes, KernelConnect(s, outcome) PROVE TypeOK'
  <2>1. outcome \in TcpHandle
    BY OutcomesAssumption DEF TcpHandle
  <2>2. [m_allSessionMap[s] EXCEPT !.tcp = outcome] \in clientSessionData
    BY <1>1, <2>1 DEF clientSessionData
  <2>3. m_allSessionMap' \in [SessionIDs -> clientSessionData]
    BY <1>7, <2>2 DEF KernelConnect, TypeOK
  <2> QED BY <1>7, <2>3 DEF KernelConnect, TypeOK, appVars
<1>8. ASSUME NEW readStarted \in BOOLEAN, OnSocketConnect(s, readStarted) PROVE TypeOK'
  <2> DEFINE data == m_allSessionMap[s]
             status == IF data.tcp = "connected" /\ ~readStarted
                       THEN 0 ELSE ConnectStatus(UvStatus(data.tcp))
             after == [data EXCEPT !.tcp = IF status = 1 THEN "open" ELSE "idle",
                                   !.isOnline = (status = 1),
                                   !.connectState = IF status = 1 THEN "CONNECT" ELSE "DISCONNECT"]
  <2>1. status \in {0, 1, 2}
    BY DEF ConnectStatus
  <2>2. after \in clientSessionData
    BY <1>1 DEF clientSessionData, ConnectState, TcpHandle
  <2>3. ConnectMsg(status) \in NetThreadMsgType \ {"EXIT_LOOP"}
    BY <2>1 DEF ConnectMsg, NetThreadMsgType
  <2>4. <<Msg(ConnectMsg(status), s, data)>> \in Seq(NetThreadMsg)
    BY <1>1, <2>3, OneMessage
  <2>5. ExecuteDisconnect(after) \in clientSessionData
    BY <2>2, EntryOperators
  <2>6. Callback(s, ExecuteDisconnect(after), <<>>)
           \/ Callback(s, after, <<Msg(ConnectMsg(status), s, data)>>)
    BY <1>8 DEF OnSocketConnect
  <2> HIDE DEF after, status
  <2> QED BY <2>2, <2>4, <2>5, <2>6, CallbackType
<1> QED BY <1>2, <1>3, <1>4, <1>5, <1>6, <1>7, <1>8

LEMMA LoopEndType ==
    TypeOK /\ (ClearSessions \/ WaitExit \/ RunReturns \/ PushExitLoop) => TypeOK'
<1> SUFFICES ASSUME TypeOK, ClearSessions \/ WaitExit \/ RunReturns \/ PushExitLoop PROVE TypeOK'
  OBVIOUS
<1>1. CASE ClearSessions
  <2>1. \A data \in clientSessionData : [data EXCEPT !.removeTag = TRUE] \in clientSessionData
    BY DEF clientSessionData
  <2>2. m_allSessionMap' \in [SessionIDs -> clientSessionData]
    BY <1>1, <2>1, EntryOperators DEF ClearSessions, TypeOK
  <2>3. m_msgQue' \in Seq(NetThreadMsg)
    BY <1>1, SweepMessages, ConcatProperties DEF ClearSessions, TypeOK
  <2> QED BY <1>1, <2>2, <2>3 DEF ClearSessions, TypeOK, ClientStage, appVars
<1>2. CASE WaitExit \/ RunReturns
  BY <1>2 DEF WaitExit, RunReturns, TypeOK, ClientStage, appVars
<1>3. CASE PushExitLoop
  <2>1. m_msgQue' \in Seq(NetThreadMsg)
    BY <1>3, MessageTypes, AppendProperties DEF PushExitLoop, TypeOK
  <2> QED BY <1>3, <2>1 DEF PushExitLoop, TypeOK, appVars
<1> QED BY <1>1, <1>2, <1>3

LEMMA TypeStep == TypeOK /\ [Next]_vars => TypeOK'
<1> SUFFICES ASSUME TypeOK, [Next]_vars PROVE TypeOK'
  OBVIOUS
<1>1. CASE UNCHANGED vars
  BY <1>1 DEF TypeOK, vars, appVars, loopVars
<1>2. CASE Next
  BY <1>1, <1>2, ApiCallType, UpdateFrameType, ExecuteOperationType, CallbacksType, LoopEndType
     DEF Next, OnClientUpdate, Peer, Run, Finished
<1> QED BY <1>1, <1>2

(* The client's state is well typed. *)
THEOREM TypeCorrect == Spec => []TypeOK
  BY InitType, TypeStep, PTL DEF Spec

-----------------------------------------------------------------------------
(* Streams.                                                                *)

LEMMA StreamTypes ==
    TypeOK => Messages \in Seq(NetThreadMsg) /\ Operations \in Seq(SessionOperation)
  BY ConcatProperties DEF TypeOK, Messages, Operations

-----------------------------------------------------------------------------
(* What keeps SessionInv.                                                  *)

(* An entry d becomes d2 while msgs are sent: what was said of the session *)
(* stays true, and nothing more is said of one that is leaving.            *)
Says(s, d, msgs, d2) ==
    /\ d.inMap => d2.inMap /\ d2.incarnation = d.incarnation
    /\ Leaving(d) => Leaving(d2) /\ \A i \in DOMAIN msgs : msgs[i].sessionID # s
    /\ \A i \in DOMAIN msgs :
          msgs[i].sessionID = s => d2.inMap /\ msgs[i].incarnation = d2.incarnation
    /\ \A i \in DOMAIN msgs : IsRemoval(msgs[i], s) =>
          Leaving(d2) /\ \A j \in DOMAIN msgs : msgs[j].sessionID = s => j <= i

LEMMA SayInv ==
    ASSUME NEW M \in Seq(NetThreadMsg), NEW msgs \in Seq(NetThreadMsg), NEW O,
           NEW s, NEW d, NEW d2, SessionInv(s, M, O, d), Says(s, d, msgs, d2)
    PROVE  SessionInv(s, M \o msgs, O, d2)
<1> DEFINE N == M \o msgs
<1>1. /\ Len(M) \in Nat /\ Len(msgs) \in Nat /\ DOMAIN M = 1 .. Len(M)
      /\ DOMAIN msgs = 1 .. Len(msgs) /\ DOMAIN N = 1 .. Len(M) + Len(msgs)
      /\ \A i \in DOMAIN N : N[i] = IF i <= Len(M) THEN M[i] ELSE msgs[i - Len(M)]
  BY ConcatProperties, LenProperties
<1>2. \A i \in DOMAIN N : \/ i \in DOMAIN M /\ N[i] = M[i]
                          \/ i - Len(M) \in DOMAIN msgs /\ i > Len(M) /\ N[i] = msgs[i - Len(M)]
  BY <1>1
<1> HIDE DEF N
<1>3. \A i \in DOMAIN N : N[i].sessionID = s => d2.inMap /\ N[i].incarnation = d2.incarnation
  BY <1>2 DEF SessionInv, Says
<1>4. ASSUME NEW i \in DOMAIN N, IsRemoval(N[i], s)
      PROVE  /\ Leaving(d2)
             /\ \A j \in DOMAIN N : N[j].sessionID = s => j <= i
             /\ \A j \in DOMAIN O : ~IsDeletion(O[j], s)
  <2>1. CASE i \in DOMAIN M /\ N[i] = M[i]
    <3>1. Leaving(d)
      BY <1>4, <2>1 DEF SessionInv
    <3>2. Leaving(d2) /\ \A j \in DOMAIN msgs : msgs[j].sessionID # s
      BY <3>1 DEF Says
    <3>3. \A j \in DOMAIN M : M[j].sessionID = s => j <= i
      BY <1>4, <2>1 DEF SessionInv
    <3>4. \A j \in DOMAIN O : ~IsDeletion(O[j], s)
      BY <1>4, <2>1 DEF SessionInv
    <3> QED BY <1>2, <3>2, <3>3, <3>4
  <2>2. CASE i - Len(M) \in DOMAIN msgs /\ i > Len(M) /\ N[i] = msgs[i - Len(M)]
    <3>1. Leaving(d2) /\ \A j \in DOMAIN msgs : msgs[j].sessionID = s => j <= i - Len(M)
      BY <1>4, <2>2 DEF Says
    <3>2. ~Leaving(d)
      BY <1>4, <2>2 DEF Says, IsRemoval
    <3>3. \A j \in DOMAIN O : ~IsDeletion(O[j], s)
      BY <3>2 DEF SessionInv
    <3>4. \A j \in DOMAIN N : N[j].sessionID = s => j <= i
      BY <1>1, <1>2, <2>2, <3>1
    <3> QED BY <3>1, <3>3, <3>4
  <2> QED BY <1>2, <2>1, <2>2
<1>5. ASSUME NEW i \in DOMAIN O, IsDeletion(O[i], s)
      PROVE  /\ Leaving(d2)
             /\ \A j \in DOMAIN N : N[j].sessionID # s
             /\ \A j \in DOMAIN O : IsDeletion(O[j], s) => j = i
  <2>1. Leaving(d) /\ (\A j \in DOMAIN M : M[j].sessionID # s)
           /\ (\A j \in DOMAIN O : IsDeletion(O[j], s) => j = i)
    BY <1>5 DEF SessionInv
  <2>2. Leaving(d2) /\ \A j \in DOMAIN msgs : msgs[j].sessionID # s
    BY <2>1 DEF Says
  <2> QED BY <1>2, <2>1, <2>2
<1> QED BY <1>3, <1>4, <1>5 DEF SessionInv, N

(* A session of which nothing is said and nothing changes *)
LEMMA SaysNothing ==
    ASSUME NEW s, NEW d, NEW msgs, \A i \in DOMAIN msgs : msgs[i].sessionID # s
    PROVE  Says(s, d, msgs, d)
  BY DEF Says, IsRemoval

(* The next message is taken ... *)
LEMMA HearInv ==
    ASSUME NEW M \in Seq(NetThreadMsg), M # <<>>, NEW O, NEW s, NEW d, SessionInv(s, M, O, d)
    PROVE  SessionInv(s, Tail(M), O, d)
<1>1. /\ Len(M) \in Nat /\ DOMAIN M = 1 .. Len(M) /\ DOMAIN Tail(M) = 1 .. Len(M) - 1
      /\ \A i \in DOMAIN Tail(M) : i + 1 \in DOMAIN M /\ Tail(M)[i] = M[i + 1]
  BY HeadTailProperties, LenProperties
<1>2. \A i \in DOMAIN Tail(M) : IsRemoval(Tail(M)[i], s) =>
         \A j \in DOMAIN Tail(M) : Tail(M)[j].sessionID = s => j <= i
  <2> SUFFICES ASSUME NEW i \in DOMAIN Tail(M), IsRemoval(Tail(M)[i], s),
                      NEW j \in DOMAIN Tail(M), Tail(M)[j].sessionID = s
               PROVE  j <= i
    OBVIOUS
  <2>1. j + 1 <= i + 1
    BY <1>1 DEF SessionInv
  <2> QED BY <1>1, <2>1
<1> QED BY <1>1, <1>2 DEF SessionInv

(* ... and when it was the removal the deletion is queued. *)
LEMMA HearRemovalInv ==
    ASSUME NEW M \in Seq(NetThreadMsg), M # <<>>, NEW O \in Seq(SessionOperation),
           NEW s \in SessionIDs, NEW d, SessionInv(s, M, O, d), IsRemoval(Head(M), s)
    PROVE  SessionInv(s, Tail(M), Append(O, Op("DELETE_SESSION", s)), d)
<1> DEFINE P == Append(O, Op("DELETE_SESSION", s))
<1>1. /\ Len(M) \in Nat \ {0} /\ DOMAIN M = 1 .. Len(M) /\ DOMAIN Tail(M) = 1 .. Len(M) - 1
      /\ \A i \in DOMAIN Tail(M) : i + 1 \in DOMAIN M /\ Tail(M)[i] = M[i + 1]
      /\ 1 \in DOMAIN M /\ Head(M) = M[1]
  BY HeadTailProperties, LenProperties, EmptySeq
<1>2. Op("DELETE_SESSION", s) \in SessionOperation
  BY OperationTypes DEF OperationType
<1>3. /\ Len(O) \in Nat /\ DOMAIN O = 1 .. Len(O) /\ DOMAIN P = 1 .. Len(O) + 1
      /\ \A i \in DOMAIN O : P[i] = O[i]
  BY <1>2, AppendProperties, LenProperties
<1>4. /\ Leaving(d)
      /\ \A j \in DOMAIN M : M[j].sessionID = s => j <= 1
      /\ \A j \in DOMAIN O : ~IsDeletion(O[j], s)
  BY <1>1 DEF SessionInv
<1>5. \A j \in DOMAIN Tail(M) : Tail(M)[j].sessionID # s
  BY <1>1, <1>4
<1>6. \A i \in DOMAIN P : IsDeletion(P[i], s) => i = Len(O) + 1
  BY <1>3, <1>4
<1> HIDE DEF P
<1>7. SessionInv(s, Tail(M), P, d)
  BY <1>4, <1>5, <1>6 DEF SessionInv, IsRemoval
<1> QED BY <1>7 DEF P

(* Another operation is queued. *)
LEMMA PushInv ==
    ASSUME NEW M, NEW O \in Seq(SessionOperation), NEW op \in SessionOperation, NEW s, NEW d,
           ~IsDeletion(op, s), SessionInv(s, M, O, d)
    PROVE  SessionInv(s, M, Append(O, op), d)
<1> DEFINE P == Append(O, op)
<1>1. /\ Len(O) \in Nat /\ DOMAIN O = 1 .. Len(O) /\ DOMAIN P = 1 .. Len(O) + 1
      /\ \A i \in DOMAIN O : P[i] = O[i]
      /\ P[Len(O) + 1] = op
  BY AppendProperties, LenProperties
<1>2. \A i \in DOMAIN P : IsDeletion(P[i], s) => i \in DOMAIN O /\ P[i] = O[i]
  BY <1>1
<1> HIDE DEF P
<1>3. SessionInv(s, M, P, d)
  BY <1>2 DEF SessionInv
<1> QED BY <1>3 DEF P

(* The next operation is taken; if it is the deletion nothing is said of   *)
(* the session and the entry may become anything.                          *)
LEMMA TakeInv ==
    ASSUME NEW M, NEW O \in Seq(SessionOperation), O # <<>>, NEW s, NEW d, SessionInv(s, M, O, d)
    PROVE  /\ SessionInv(s, M, Tail(O), d)
           /\ IsDeletion(Head(O), s) => \A d2 : SessionInv(s, M, Tail(O), d2)
<1>1. /\ Len(O) \in Nat \ {0} /\ DOMAIN O = 1 .. Len(O) /\ DOMAIN Tail(O) = 1 .. Len(O) - 1
      /\ \A i \in DOMAIN Tail(O) : i + 1 \in DOMAIN O /\ Tail(O)[i] = O[i + 1]
      /\ 1 \in DOMAIN O /\ Head(O) = O[1]
  BY HeadTailProperties, LenProperties, EmptySeq
<1>2. \A i \in DOMAIN Tail(O) : IsDeletion(Tail(O)[i], s) =>
         \A j \in DOMAIN Tail(O) : IsDeletion(Tail(O)[j], s) => j = i
  <2> SUFFICES ASSUME NEW i \in DOMAIN Tail(O), IsDeletion(Tail(O)[i], s),
                      NEW j \in DOMAIN Tail(O), IsDeletion(Tail(O)[j], s)
               PROVE  j = i
    OBVIOUS
  <2>1. j + 1 = i + 1
    BY <1>1 DEF SessionInv
  <2> QED BY <1>1, <2>1
<1>3. SessionInv(s, M, Tail(O), d)
  BY <1>1, <1>2 DEF SessionInv
<1>4. ASSUME IsDeletion(Head(O), s), NEW d2 PROVE SessionInv(s, M, Tail(O), d2)
  <2>1. /\ \A j \in DOMAIN M : M[j].sessionID # s
        /\ \A j \in DOMAIN O : IsDeletion(O[j], s) => j = 1
    BY <1>1, <1>4 DEF SessionInv
  <2>2. \A j \in DOMAIN Tail(O) : ~IsDeletion(Tail(O)[j], s)
    BY <1>1, <2>1
  <2> QED BY <2>1, <2>2 DEF SessionInv, IsRemoval
<1> QED BY <1>3, <1>4

-----------------------------------------------------------------------------
(* What keeps the order of CLIENT_CLOSE and CONNECT, and EXIT_LOOP last.   *)

LEMMA CloseOrderTail ==
    ASSUME NEW O \in Seq(SessionOperation), O # <<>>, NEW isStop, NEW stage,
           CloseOrder(O, isStop, stage)
    PROVE  CloseOrder(Tail(O), isStop, stage)
<1>1. /\ Len(O) \in Nat /\ DOMAIN O = 1 .. Len(O) /\ DOMAIN Tail(O) = 1 .. Len(O) - 1
      /\ \A i \in DOMAIN Tail(O) : i + 1 \in DOMAIN O /\ Tail(O)[i] = O[i + 1]
  BY HeadTailProperties, LenProperties
<1>2. ASSUME NEW i \in DOMAIN Tail(O), Tail(O)[i].type = "CLIENT_CLOSE"
      PROVE  isStop /\ \A j \in DOMAIN Tail(O) : i < j => Tail(O)[j].type # "CONNECT"
  BY <1>1, <1>2 DEF CloseOrder
<1>3. stage # "START" => isStop /\ \A i \in DOMAIN Tail(O) : Tail(O)[i].type # "CONNECT"
  BY <1>1 DEF CloseOrder
<1> QED BY <1>2, <1>3 DEF CloseOrder

LEMMA CloseOrderPush ==
    ASSUME NEW O \in Seq(SessionOperation), NEW op \in SessionOperation, NEW stage,
           NEW isStop \in BOOLEAN, NEW isStop2 \in BOOLEAN, CloseOrder(O, isStop, stage),
           isStop => isStop2,
           op.type = "CONNECT" => ~isStop, op.type = "CLIENT_CLOSE" => isStop2
    PROVE  CloseOrder(Append(O, op), isStop2, stage)
<1> DEFINE P == Append(O, op)
<1>1. /\ Len(O) \in Nat /\ DOMAIN O = 1 .. Len(O) /\ DOMAIN P = 1 .. Len(O) + 1
      /\ \A i \in DOMAIN O : P[i] = O[i]
      /\ P[Len(O) + 1] = op
  BY AppendProperties, LenProperties
<1> HIDE DEF P
<1>2. ASSUME NEW i \in DOMAIN P, P[i].type = "CLIENT_CLOSE"
      PROVE  isStop2 /\ \A j \in DOMAIN P : i < j => P[j].type # "CONNECT"
  <2>1. CASE i \in DOMAIN O
    <3>1. isStop /\ \A j \in DOMAIN O : i < j => O[j].type # "CONNECT"
      BY <1>1, <1>2, <2>1 DEF CloseOrder
    <3> QED BY <1>1, <3>1
  <2>2. CASE i = Len(O) + 1
    BY <1>1, <1>2, <2>2
  <2> QED BY <1>1, <2>1, <2>2
<1>3. stage # "START" => isStop2 /\ \A i \in DOMAIN P : P[i].type # "CONNECT"
  BY <1>1 DEF CloseOrder
<1>4. CloseOrder(P, isStop2, stage)
  BY <1>2, <1>3 DEF CloseOrder
<1> QED BY <1>4 DEF P

(* Until EXIT_LOOP is pushed it is nowhere. *)
LEMMA BeforeExit ==
    ASSUME ExitInv, loop # "exited"
    PROVE  /\ \A i \in DOMAIN Messages : Messages[i].type # "EXIT_LOOP"
           /\ ~closeClientTag /\ ~closed
  BY DEF ExitInv

-----------------------------------------------------------------------------
(* The loop thread turns the entry of one session, says something of it,   *)
(* and may have taken an operation.                                        *)

LEMMA SayMessages ==
    ASSUME TypeOK, NEW msgs \in Seq(NetThreadMsg), m_msgQue' = m_msgQue \o msgs,
           UNCHANGED m_msgDispatchQue
    PROVE  Messages' = Messages \o msgs
<1>1. m_msgDispatchQue \in Seq(NetThreadMsg) /\ m_msgQue \in Seq(NetThreadMsg)
  BY DEF TypeOK
<1>2. m_msgDispatchQue \o (m_msgQue \o msgs) = (m_msgDispatchQue \o m_msgQue) \o msgs
  <2>1. \A s, t, u \in Seq(NetThreadMsg) : s \o (t \o u) = (s \o t) \o u
    BY ConcatLeft
  <2> QED BY <1>1, <2>1
<1> QED BY <1>2 DEF Messages

LEMMA SayExitInv ==
    ASSUME TypeOK, ExitInv, loop # "exited", NEW msgs \in Seq(NetThreadMsg),
           \A i \in DOMAIN msgs : msgs[i].sessionID # NoSession,
           Messages' = Messages \o msgs, UNCHANGED <<closeClientTag, closed>>
    PROVE  ExitInv'
<1>1. /\ \A i \in DOMAIN Messages : Messages[i].type # "EXIT_LOOP"
      /\ ~closeClientTag /\ ~closed
  BY BeforeExit
<1>2. \A i \in DOMAIN msgs : msgs[i].type # "EXIT_LOOP"
  <2>1. \A i \in DOMAIN msgs : msgs[i] \in NetThreadMsg
    BY LenProperties, ElementOfSeq
  <2> QED BY <2>1 DEF NetThreadMsg
<1>3. Messages \in Seq(NetThreadMsg)
  BY StreamTypes
<1>4. /\ DOMAIN Messages = 1 .. Len(Messages) /\ DOMAIN msgs = 1 .. Len(msgs)
      /\ Len(Messages) \in Nat /\ Len(msgs) \in Nat
      /\ DOMAIN (Messages \o msgs) = 1 .. Len(Messages) + Len(msgs)
      /\ \A i \in 1 .. Len(Messages) + Len(msgs) :
            (Messages \o msgs)[i] = IF i <= Len(Messages) THEN Messages[i]
                                    ELSE msgs[i - Len(Messages)]
  BY <1>3, ConcatProperties, LenProperties
<1>5. \A i \in DOMAIN (Messages \o msgs) : (Messages \o msgs)[i].type # "EXIT_LOOP"
  BY <1>1, <1>2, <1>4
<1> QED BY <1>1, <1>5 DEF ExitInv

LEMMA LoopStepInv ==
    ASSUME ClientInv, TypeOK', NEW s \in SessionIDs, NEW msgs \in Seq(NetThreadMsg),
           loop = "running", UNCHANGED <<appVars, loop, m_clientStage>>,
           m_msgQue' = m_msgQue \o msgs,
           Operations' = Operations \/ (Operations # <<>> /\ Operations' = Tail(Operations)),
           \A t \in SessionIDs \ {s} : m_allSessionMap'[t] = m_allSessionMap[t],
           \A i \in DOMAIN msgs : msgs[i].sessionID = s,
           SocketInv(m_allSessionMap'[s]),
           SessionInv(s, Messages \o msgs, Operations', m_allSessionMap'[s]),
           m_clientStage \in {"WAIT_EXIT", "STOP"} => ~m_allSessionMap'[s].inMap
    PROVE  ClientInv'
<1>1. Messages \in Seq(NetThreadMsg) /\ Operations \in Seq(SessionOperation)
  BY StreamTypes DEF ClientInv
<1>2. Messages' = Messages \o msgs
  BY SayMessages DEF ClientInv, appVars
<1>3. ASSUME NEW t \in SessionIDs
      PROVE  SocketInv(m_allSessionMap'[t])
                /\ SessionInv(t, Messages', Operations', m_allSessionMap'[t])
  <2>1. CASE t = s
    BY <1>2, <2>1
  <2>2. CASE t # s
    <3>1. m_allSessionMap'[t] = m_allSessionMap[t]
      BY <2>2
    <3>2. SocketInv(m_allSessionMap[t])
             /\ SessionInv(t, Messages, Operations, m_allSessionMap[t])
      BY DEF ClientInv
    <3>3. SessionInv(t, Messages, Operations', m_allSessionMap[t])
      BY <1>1, <3>2, TakeInv
    <3>4. Says(t, m_allSessionMap[t], msgs, m_allSessionMap[t])
      BY <2>2, SaysNothing
    <3>5. SessionInv(t, Messages \o msgs, Operations', m_allSessionMap[t])
      BY <1>1, <3>3, <3>4, SayInv
    <3> QED BY <1>2, <3>1, <3>2, <3>5
  <2> QED BY <2>1, <2>2
<1>4. StageInv'
  <2>1. CloseOrder(Operations', m_isStop, m_clientStage)
    BY <1>1, CloseOrderTail DEF ClientInv, StageInv
  <2>2. m_clientStage \in {"WAIT_EXIT", "STOP"} => \A t \in SessionIDs : ~m_allSessionMap'[t].inMap
    BY DEF ClientInv, StageInv, InMap
  <2> QED BY <2>1, <2>2 DEF ClientInv, StageInv, InMap, appVars
<1>5. ExitInv'
  <2>1. \A i \in DOMAIN msgs : msgs[i].sessionID # NoSession
    BY SessionAssumption
  <2> QED BY <1>2, <2>1, SayExitInv DEF ClientInv, appVars
<1> QED BY <1>3, <1>4, <1>5 DEF ClientInv

(* The application's thread queues an operation. *)
LEMMA PushStepInv ==
    ASSUME ClientInv, TypeOK', NEW op \in SessionOperation, \A s : ~IsDeletion(op, s),
           PushOperation(op),
           UNCHANGED <<m_msgDispatchQue, closeClientTag, closed, m_msgQue, loopVars>>,
           m_isStop => m_isStop',
           op.type = "CONNECT" => ~m_isStop, op.type = "CLIENT_CLOSE" => m_isStop',
           app' # "polling" => m_msgDispatchQue = <<>>
    PROVE  ClientInv'
<1>1. Messages \in Seq(NetThreadMsg) /\ Operations \in Seq(SessionOperation)
  BY StreamTypes DEF ClientInv
<1>2. Messages' = Messages
  BY DEF Messages
<1>3. Operations' = Append(Operations, op)
  <2>1. m_operationDispatchQue \in Seq(SessionOperation) /\ m_operationQue \in Seq(SessionOperation)
    BY DEF ClientInv, TypeOK
  <2> QED BY <2>1, ConcatAppend DEF Operations, PushOperation, loopVars
<1>4. ASSUME NEW t \in SessionIDs
      PROVE  SocketInv(m_allSessionMap'[t])
                /\ SessionInv(t, Messages', Operations', m_allSessionMap'[t])
  <2>1. SocketInv(m_allSessionMap[t]) /\ SessionInv(t, Messages, Operations, m_allSessionMap[t])
    BY DEF ClientInv
  <2>2. SessionInv(t, Messages, Append(Operations, op), m_allSessionMap[t])
    BY <1>1, <2>1, PushInv
  <2> QED BY <1>2, <1>3, <2>1, <2>2 DEF loopVars
<1>5. StageInv'
  <2>1. m_isStop \in BOOLEAN /\ m_isStop' \in BOOLEAN
    BY DEF ClientInv, TypeOK
  <2>2. CloseOrder(Operations, m_isStop, m_clientStage)
    BY DEF ClientInv, StageInv
  <2>3. CloseOrder(Append(Operations, op), m_isStop', m_clientStage)
    BY <1>1, <2>1, <2>2, CloseOrderPush
  <2> QED BY <1>3, <2>3 DEF ClientInv, StageInv, InMap, loopVars
<1>6. ExitInv'
  BY <1>2 DEF ClientInv, ExitInv, loopVars
<1> QED BY <1>4, <1>5, <1>6 DEF ClientInv

-----------------------------------------------------------------------------
(* Entries.                                                                *)

(* Disconnecting leaves what the streams depend on. *)
LEMMA DisconnectKeeps ==
    ASSUME NEW data \in clientSessionData
    PROVE  \A d \in {ExecuteDisconnect(data), SocketDisconnect(data)}
                       \cup {ExecuteSend(data, wrote) : wrote \in BOOLEAN} :
              /\ d.inMap = data.inMap /\ d.incarnation = data.incarnation
              /\ d.removeTag = data.removeTag /\ d.connectState = data.connectState
  BY DEF ExecuteDisconnect, SocketDisconnect, ExecuteSend, clientSessionData

LEMMA DisconnectSocket ==
    ASSUME NEW data \in clientSessionData, SocketInv(data)
    PROVE  SocketInv(ExecuteDisconnect(data))
<1>1. CASE ~data.isOnline
  BY <1>1 DEF ExecuteDisconnect
<1>2. CASE data.isOnline
  <2>1. data.connectState \in {"CONNECT", "DISCONNECTING"}
    BY <1>2 DEF SocketInv, clientSessionData, ConnectState
  <2>2. data.closing \/ data.tcp # "null"
    BY <2>1 DEF SocketInv
  <2>3. ExecuteDisconnect(data) =
           [data EXCEPT !.isOnline = FALSE, !.tcp = "null", !.closing = TRUE]
    BY <1>2, <2>2 DEF ExecuteDisconnect, SocketDisconnect, clientSessionData
  <2> QED BY <2>1, <2>3 DEF SocketInv, clientSessionData
<1> QED BY <1>1, <1>2 DEF clientSessionData

LEMMA SendSocket ==
    ASSUME NEW data \in clientSessionData, SocketInv(data), NEW wrote \in BOOLEAN
    PROVE  SocketInv(ExecuteSend(data, wrote))
  BY DisconnectSocket DEF ExecuteSend

-----------------------------------------------------------------------------
(* The application's thread.                                               *)

LEMMA NoDeletion ==
    /\ \A s, t, type : type # "DELETE_SESSION" => ~IsDeletion(Op(type, s), t)
    /\ \A s, t, auto : ~IsDeletion(AutoOp(s, auto), t)
  BY DEF IsDeletion, Op, AutoOp

LEMMA ApiCallInv ==
    ASSUME ClientInv, TypeOK', ApiCall
    PROVE  ClientInv'
<1> USE NoDeletion
<1>1. \A s \in SessionIDs :
         \A type \in {"CONNECT", "DISCONNECT", "REMOVE_SESSION", "SENDDATA"} :
            Op(type, s) \in SessionOperation
  BY OperationTypes DEF OperationType
<1>2. ASSUME NEW name, NEW op \in SessionOperation, \A s : ~IsDeletion(op, s),
             Call(name, op), m_isStop' = m_isStop,
             op.type = "CONNECT" => ~m_isStop, op.type # "CLIENT_CLOSE"
      PROVE  ClientInv'
  BY <1>2, PushStepInv DEF Call
<1>3. ASSUME NEW s \in SessionIDs, Connect(s) PROVE ClientInv'
  <2>1. Op("CONNECT", s).type = "CONNECT"
    BY DEF Op
  <2> QED BY <1>1, <1>2, <1>3, <2>1 DEF Connect, Accepting
<1>4. ASSUME NEW s \in SessionIDs, Disconnect(s) PROVE ClientInv'
  <2>1. Op("DISCONNECT", s).type = "DISCONNECT"
    BY DEF Op
  <2> QED BY <1>1, <1>2, <1>4, <2>1 DEF Disconnect
<1>5. ASSUME NEW s \in SessionIDs, RemoveSession(s) PROVE ClientInv'
  <2>1. Op("REMOVE_SESSION", s).type = "REMOVE_SESSION"
    BY DEF Op
  <2> QED BY <1>1, <1>2, <1>5, <2>1 DEF RemoveSession
<1>6. ASSUME NEW s \in SessionIDs, Send(s) PROVE ClientInv'
  <2>1. Op("SENDDATA", s).type = "SENDDATA"
    BY DEF Op
  <2> QED BY <1>1, <1>2, <1>6, <2>1 DEF Send
<1>7. ASSUME NEW s \in SessionIDs \cup {NoSession}, NEW auto \in BOOLEAN,
             SetAutoReconnect(auto) \/ SetAutoReconnectBySessionID(s, auto)
      PROVE ClientInv'
  <2>1. \A t \in SessionIDs \cup {NoSession} :
           AutoOp(t, auto) \in SessionOperation /\ AutoOp(t, auto).type = "SET_AUTO_CONNECT"
    BY OperationTypes DEF AutoOp
  <2> QED BY <1>2, <1>7, <2>1 DEF SetAutoReconnect, SetAutoReconnectBySessionID
<1>8. Op("CLIENT_CLOSE", NoSession) \in SessionOperation
         /\ Op("CLIENT_CLOSE", NoSession).type = "CLIENT_CLOSE"
  BY OperationTypes DEF Op
<1>9. CASE CloseClient
  BY <1>8, <1>9, PushStepInv DEF CloseClient
<1>10. CASE Delete /\ Accepting
  BY <1>8, <1>10, PushStepInv DEF Delete
<1>11. CASE Delete /\ ~Accepting
  <2>1. Messages' = Messages /\ Operations' = Operations /\ m_isStop' = m_isStop
    BY <1>11 DEF Delete, Accepting, Messages, Operations, loopVars, ClientInv, TypeOK
  <2>2. StageInv'
    BY <1>11, <2>1 DEF Delete, StageInv, ClientInv, InMap, loopVars
  <2>3. ExitInv'
    BY <1>11, <2>1 DEF Delete, ExitInv, ClientInv, loopVars
  <2> QED BY <1>11, <2>1, <2>2, <2>3 DEF Delete, ClientInv, loopVars
<1> QED BY <1>3, <1>4, <1>5, <1>6, <1>7, <1>9, <1>10, <1>11 DEF ApiCall

(* A batch is taken on either side: the streams stay as they are. *)
LEMMA BatchInv ==
    ASSUME ClientInv, TypeOK', GetThreadMsg \/ TakeOperations
    PROVE  ClientInv'
<1>1. Messages' = Messages /\ Operations' = Operations
  <2>1. CASE GetThreadMsg
    <3>1. m_msgQue \in Seq(NetThreadMsg)
      BY DEF ClientInv, TypeOK
    <3>2. Messages = m_msgQue /\ Messages' = m_msgQue
      BY <2>1, <3>1, ConcatEmptySeq DEF GetThreadMsg, Messages
    <3> QED BY <2>1, <3>2 DEF GetThreadMsg, Operations, loopVars
  <2>2. CASE TakeOperations
    <3>1. m_operationQue \in Seq(SessionOperation)
      BY DEF ClientInv, TypeOK
    <3>2. Operations = m_operationQue /\ Operations' = m_operationQue
      BY <2>2, <3>1, ConcatEmptySeq DEF TakeOperations, LoopFree, Operations
    <3> QED BY <2>2, <3>2 DEF TakeOperations, Messages, appVars
  <2> QED BY <2>1, <2>2
<1>2. UNCHANGED <<m_isStop, closeClientTag, app, closed, m_clientStage, loop, m_allSessionMap>>
  BY DEF GetThreadMsg, TakeOperations, loopVars, appVars
<1>3. StageInv'
  <2>1. app # "polling" => m_msgDispatchQue' = m_msgDispatchQue
    BY DEF GetThreadMsg, TakeOperations, appVars
  <2> QED BY <1>1, <1>2, <2>1 DEF ClientInv, StageInv, InMap
<1>4. ExitInv'
  BY <1>1, <1>2 DEF ClientInv, ExitInv
<1> QED BY <1>1, <1>2, <1>3, <1>4 DEF ClientInv

LEMMA DispatchInv ==
    ASSUME ClientInv, TypeOK', DispatchMsg
    PROVE  ClientInv'
<1> DEFINE m == Head(m_msgDispatchQue)
<1>1. Messages \in Seq(NetThreadMsg) /\ Operations \in Seq(SessionOperation)
  BY StreamTypes DEF ClientInv
<1>2. Messages # <<>> /\ Head(Messages) = m /\ Messages' = Tail(Messages)
  <2>1. m_msgDispatchQue \in Seq(NetThreadMsg) /\ m_msgQue \in Seq(NetThreadMsg)
    BY DEF ClientInv, TypeOK
  <2> QED BY <2>1, HeadTailConcat DEF DispatchMsg, Messages
<1>3. m \in NetThreadMsg /\ (m.type = "REMOVE_SESSION" => m.sessionID \in SessionIDs)
  <2>1. m \in NetThreadMsg
    BY <1>1, <1>2, HeadTailProperties
  <2> QED BY <2>1 DEF NetThreadMsg
<1>4. UNCHANGED <<m_isStop, app, closed, loop, m_clientStage, m_allSessionMap>>
  BY DEF DispatchMsg, loopVars
<1>5. Operations' = IF m.type = "REMOVE_SESSION"
                    THEN Append(Operations, Op("DELETE_SESSION", m.sessionID)) ELSE Operations
  <2>1. m_operationDispatchQue \in Seq(SessionOperation) /\ m_operationQue \in Seq(SessionOperation)
    BY DEF ClientInv, TypeOK
  <2>2. CASE m.type = "REMOVE_SESSION"
    <3>1. Op("DELETE_SESSION", m.sessionID) \in SessionOperation
      BY <1>3, <2>2, OperationTypes DEF OperationType
    <3>2. /\ m_operationQue' = Append(m_operationQue, Op("DELETE_SESSION", m.sessionID))
          /\ m_operationDispatchQue' = m_operationDispatchQue
      BY <2>2 DEF DispatchMsg, PushOperation, loopVars
    <3> QED BY <2>1, <2>2, <3>1, <3>2, ConcatAppend DEF Operations
  <2>3. CASE m.type # "REMOVE_SESSION"
    BY <2>3 DEF DispatchMsg, Operations, loopVars
  <2> QED BY <2>2, <2>3
<1>6. ASSUME NEW t \in SessionIDs PROVE SessionInv(t, Messages', Operations', m_allSessionMap[t])
  <2>1. SessionInv(t, Messages, Operations, m_allSessionMap[t])
    BY DEF ClientInv
  <2>2. SessionInv(t, Tail(Messages), Operations, m_allSessionMap[t])
    BY <1>1, <1>2, <2>1, HearInv
  <2>3. CASE IsRemoval(m, t)
    BY <1>1, <1>2, <1>5, <2>1, <2>3, HearRemovalInv DEF IsRemoval
  <2>4. CASE m.type = "REMOVE_SESSION" /\ m.sessionID # t
    <3>1. Op("DELETE_SESSION", m.sessionID) \in SessionOperation
      BY <1>3, <2>4, OperationTypes DEF OperationType
    <3>2. ~IsDeletion(Op("DELETE_SESSION", m.sessionID), t)
      BY <2>4 DEF IsDeletion, Op
    <3> QED BY <1>1, <1>2, <1>5, <2>2, <2>4, <3>1, <3>2, PushInv
  <2>5. CASE m.type # "REMOVE_SESSION"
    BY <1>2, <1>5, <2>2, <2>5
  <2> QED BY <2>3, <2>4, <2>5 DEF IsRemoval
<1>7. StageInv'
  <2>1. CASE m.type = "REMOVE_SESSION"
    <3>1. Op("DELETE_SESSION", m.sessionID) \in SessionOperation
             /\ Op("DELETE_SESSION", m.sessionID).type = "DELETE_SESSION"
      BY <1>3, <2>1, OperationTypes DEF OperationType, Op
    <3>2. CloseOrder(Operations, m_isStop, m_clientStage) /\ m_isStop \in BOOLEAN
      BY DEF ClientInv, StageInv, TypeOK
    <3>3. CloseOrder(Operations', m_isStop, m_clientStage)
      BY <1>1, <1>5, <2>1, <3>1, <3>2, CloseOrderPush
    <3> QED BY <1>4, <3>3 DEF ClientInv, StageInv, InMap, DispatchMsg
  <2>2. CASE m.type # "REMOVE_SESSION"
    BY <1>4, <1>5, <2>2 DEF ClientInv, StageInv, InMap, DispatchMsg
  <2> QED BY <2>1, <2>2
<1>8. ExitInv'
  <2>1. /\ Len(Messages) \in Nat \ {0} /\ DOMAIN Messages = 1 .. Len(Messages)
        /\ Tail(Messages) \in Seq(NetThreadMsg)
        /\ Len(Tail(Messages)) = Len(Messages) - 1
        /\ DOMAIN Tail(Messages) = 1 .. Len(Messages) - 1
        /\ \A i \in DOMAIN Tail(Messages) :
              i + 1 \in DOMAIN Messages /\ Tail(Messages)[i] = Messages[i + 1]
        /\ m = Messages[1]
    BY <1>1, <1>2, HeadTailProperties, LenProperties, EmptySeq
  <2>2. \A i \in DOMAIN Tail(Messages) :
           Tail(Messages)[i].type = "EXIT_LOOP" => i = Len(Tail(Messages)) /\ loop = "exited"
    BY <2>1 DEF ClientInv, ExitInv
  <2>3. ~closeClientTag /\ ~closed
    BY <1>2 DEF ClientInv, ExitInv
  <2>4. m.type = "EXIT_LOOP" => Tail(Messages) = <<>> /\ loop = "exited"
    <3>1. m.type = "EXIT_LOOP" => Len(Messages) = 1 /\ loop = "exited"
      BY <2>1 DEF ClientInv, ExitInv
    <3> QED BY <2>1, <3>1, EmptySeq
  <2>5. closeClientTag' => m.type = "EXIT_LOOP"
    BY <2>3 DEF DispatchMsg
  <2>6. closeClientTag' \/ closed' => Messages' = <<>> /\ loop' = "exited"
    BY <1>2, <1>4, <2>3, <2>4, <2>5
  <2>7. \A i \in DOMAIN Messages' :
           Messages'[i].type = "EXIT_LOOP" => i = Len(Messages') /\ loop' = "exited"
    BY <1>2, <1>4, <2>2
  <2> QED BY <2>6, <2>7 DEF ExitInv
<1> QED BY <1>4, <1>6, <1>7, <1>8 DEF ClientInv

LEMMA ClientCloseCallInv ==
    ASSUME ClientInv, TypeOK', ClientCloseCall
    PROVE  ClientInv'
<1>1. /\ Messages' = Messages /\ Operations' = Operations
      /\ UNCHANGED <<m_isStop, app, m_msgDispatchQue, m_clientStage, loop, m_allSessionMap>>
  BY DEF ClientCloseCall, Messages, Operations, loopVars
<1>2. StageInv'
  BY <1>1 DEF ClientInv, StageInv, InMap
<1>3. ExitInv'
  <2>1. Messages = <<>> /\ loop = "exited"
    BY DEF ClientCloseCall, ClientInv, ExitInv
  <2>2. \A i \in DOMAIN Messages :
           Messages[i].type = "EXIT_LOOP" => i = Len(Messages) /\ loop = "exited"
    BY DEF ClientInv, ExitInv
  <2> QED BY <1>1, <2>1, <2>2 DEF ExitInv
<1> QED BY <1>1, <1>2, <1>3 DEF ClientInv

(* join() has returned, so every session is gone; what is left of the      *)
(* queues is dropped.                                                      *)
LEMMA DeleteReturnsInv ==
    ASSUME ClientInv, TypeOK', DeleteReturns
    PROVE  ClientInv'
<1>1. m_clientStage \in {"WAIT_EXIT", "STOP"} /\ \A s \in SessionIDs : ~InMap(s)
  BY DEF DeleteReturns, ClientInv, StageInv
<1>2. Messages' = <<>>
  <2>1. m_msgDispatchQue' = <<>> /\ m_msgQue' = <<>>
    BY DEF DeleteReturns, ClientInv, StageInv
  <2>2. <<>> \in Seq(NetThreadMsg)
    BY EmptySeq
  <2> QED BY <2>1, <2>2, ConcatEmptySeq DEF Messages
<1>3. \A i \in DOMAIN Operations' : i \in DOMAIN Operations /\ Operations'[i] = Operations[i]
  <2>1. m_operationDispatchQue \in Seq(SessionOperation) /\ m_operationQue \in Seq(SessionOperation)
    BY DEF ClientInv, TypeOK
  <2>2. Operations' = m_operationDispatchQue
    BY <2>1, ConcatEmptySeq DEF DeleteReturns, Operations
  <2>3. /\ DOMAIN Operations = 1 .. Len(m_operationDispatchQue) + Len(m_operationQue)
        /\ DOMAIN m_operationDispatchQue = 1 .. Len(m_operationDispatchQue)
        /\ Len(m_operationDispatchQue) \in Nat /\ Len(m_operationQue) \in Nat
        /\ \A i \in 1 .. Len(m_operationDispatchQue) + Len(m_operationQue) :
              Operations[i] = IF i <= Len(m_operationDispatchQue) THEN m_operationDispatchQue[i]
                              ELSE m_operationQue[i - Len(m_operationDispatchQue)]
    BY <2>1, ConcatProperties, LenProperties DEF Operations
  <2> QED BY <2>2, <2>3
<1>4. UNCHANGED <<m_isStop, m_msgDispatchQue, m_clientStage, loop>>
  BY DEF DeleteReturns
<1>5. ASSUME NEW s \in SessionIDs
      PROVE  /\ SocketInv(m_allSessionMap'[s]) /\ ~m_allSessionMap'[s].inMap
             /\ SessionInv(s, Messages', Operations', m_allSessionMap'[s])
  <2>1. m_allSessionMap'[s] = NoEntry(m_allSessionMap[s].incarnation)
    BY DEF DeleteReturns
  <2>2. \A i \in DOMAIN Operations : ~IsDeletion(Operations[i], s)
    BY <1>1 DEF ClientInv, SessionInv, Leaving, InMap
  <2> QED BY <1>2, <1>3, <2>1, <2>2 DEF SocketInv, SessionInv, NoEntry
<1>6. StageInv'
  <2>1. CloseOrder(Operations', m_isStop, m_clientStage)
    BY <1>1, <1>3 DEF ClientInv, StageInv, CloseOrder
  <2>2. m_msgDispatchQue' = <<>>
    BY <1>4 DEF DeleteReturns, ClientInv, StageInv
  <2>3. \A s \in SessionIDs : ~InMap(s)'
    BY <1>5 DEF InMap
  <2> QED BY <1>1, <1>4, <2>1, <2>2, <2>3 DEF StageInv
<1>7. ExitInv'
  BY <1>2, <1>4 DEF DeleteReturns, ExitInv
<1> QED BY <1>5, <1>6, <1>7 DEF ClientInv

-----------------------------------------------------------------------------
(* The loop thread: operations.                                            *)

LEMMA ExecutingStream ==
    ASSUME TypeOK, NEW type, Executing(type)
    PROVE  Operations # <<>> /\ Head(Operations) = curOperation /\ Operations' = Tail(Operations)
<1>1. m_operationDispatchQue \in Seq(SessionOperation) /\ m_operationQue \in Seq(SessionOperation)
  BY DEF TypeOK
<1> QED BY <1>1, HeadTailConcat DEF Executing, Operations, curOperation

(* An operation on a session: its entry becomes data, with msgs. *)
LEMMA ExecutedInv ==
    ASSUME ClientInv, TypeOK', NEW type, type \notin {"SET_AUTO_CONNECT", "CLIENT_CLOSE"},
           Executing(type), NEW data, NEW msgs \in Seq(NetThreadMsg), Executed(data, msgs),
           \A i \in DOMAIN msgs : msgs[i].sessionID = curOperation.sessionID,
           SocketInv(data),
           SessionInv(curOperation.sessionID, Messages \o msgs, Tail(Operations), data),
           type # "CONNECT" /\ data.inMap => Target.inMap
    PROVE  ClientInv'
<1> DEFINE s == curOperation.sessionID
<1>1. s \in SessionIDs
  BY TargetType DEF ClientInv
<1>2. m_allSessionMap'[s] = data
         /\ \A t \in SessionIDs \ {s} : m_allSessionMap'[t] = m_allSessionMap[t]
  BY <1>1 DEF Executed, ClientInv, TypeOK
<1>3. Operations # <<>> /\ Head(Operations) = curOperation /\ Operations' = Tail(Operations)
  BY ExecutingStream DEF ClientInv
<1>4. m_clientStage \in {"WAIT_EXIT", "STOP"} => ~data.inMap
  <2>1. SUFFICES ASSUME m_clientStage \in {"WAIT_EXIT", "STOP"} PROVE ~data.inMap
    OBVIOUS
  <2>2. \A i \in DOMAIN Operations : Operations[i].type # "CONNECT"
    BY <2>1 DEF ClientInv, StageInv, CloseOrder
  <2>3. 1 \in DOMAIN Operations /\ Operations[1] = curOperation
    <3>1. Operations \in Seq(SessionOperation)
      BY StreamTypes DEF ClientInv
    <3> QED BY <1>3, <3>1, LenProperties, EmptySeq
  <2>4. type # "CONNECT"
    BY <2>2, <2>3 DEF Executing
  <2>5. ~Target.inMap
    BY <1>1, <2>1 DEF ClientInv, StageInv, InMap, Target
  <2> QED BY <2>4, <2>5
<1>5. loop = "running" /\ UNCHANGED <<appVars, loop, m_clientStage>> /\ m_msgQue' = m_msgQue \o msgs
  BY DEF Executing, Executed
<1> HIDE DEF s
<1> QED BY <1>1, <1>2, <1>3, <1>4, <1>5, LoopStepInv DEF s

(* The same, for an operation that keeps to Says. *)
LEMMA ExecutedSaysInv ==
    ASSUME ClientInv, TypeOK', NEW type, type \notin {"SET_AUTO_CONNECT", "CLIENT_CLOSE"},
           Executing(type), NEW data, NEW msgs \in Seq(NetThreadMsg), Executed(data, msgs),
           \A i \in DOMAIN msgs : msgs[i].sessionID = curOperation.sessionID,
           SocketInv(data), Says(curOperation.sessionID, Target, msgs, data),
           type # "CONNECT" /\ data.inMap => Target.inMap
    PROVE  ClientInv'
<1> DEFINE s == curOperation.sessionID
<1>1. s \in SessionIDs
  BY TargetType DEF ClientInv
<1>2. Operations # <<>> /\ Operations \in Seq(SessionOperation) /\ Messages \in Seq(NetThreadMsg)
  BY ExecutingStream, StreamTypes DEF ClientInv
<1>3. SessionInv(s, Messages, Operations, Target)
  BY <1>1 DEF ClientInv, Target
<1>4. SessionInv(s, Messages, Tail(Operations), Target)
  BY <1>2, <1>3, TakeInv
<1>5. SessionInv(s, Messages \o msgs, Tail(Operations), data)
  BY <1>2, <1>4, SayInv
<1> QED BY <1>5, ExecutedInv

(* ... and says nothing. *)
LEMMA ExecutedSilentInv ==
    ASSUME ClientInv, TypeOK', NEW type, type \notin {"SET_AUTO_CONNECT", "CLIENT_CLOSE"},
           Executing(type), NEW data, Executed(data, <<>>),
           SocketInv(data), Says(curOperation.sessionID, Target, <<>>, data),
           type # "CONNECT" /\ data.inMap => Target.inMap
    PROVE  ClientInv'
<1> DEFINE msgs == <<>>
<1>1. msgs \in Seq(NetThreadMsg) /\ DOMAIN msgs = {}
  BY EmptyMessages
<1>2. Executed(data, msgs) /\ Says(curOperation.sessionID, Target, msgs, data)
  OBVIOUS
<1> HIDE DEF msgs
<1>3. \A i \in DOMAIN msgs : msgs[i].sessionID = curOperation.sessionID
  BY <1>1
<1> QED BY <1>1, <1>2, <1>3, ExecutedSaysInv

(* Beginnings of the turns: what Says asks of an entry that stays. *)
LEMMA SaysKeep ==
    ASSUME NEW s, NEW d, NEW d2,
           d2.inMap = d.inMap, d2.incarnation = d.incarnation,
           d.removeTag => d2.removeTag,
           d.connectState = "DISCONNECT" /\ d.removeTag => d2.connectState = "DISCONNECT"
    PROVE  Says(s, d, <<>>, d2)
  BY DEF Says, Leaving

(* ... and of one message about it. *)
LEMMA SaysOne ==
    ASSUME NEW s, NEW d \in clientSessionData, NEW d2 \in clientSessionData, NEW type,
           d2.inMap, d2.incarnation = d.incarnation, ~Leaving(d),
           type = "REMOVE_SESSION" => Leaving(d2)
    PROVE  /\ Says(s, d, <<Msg(type, s, d)>>, d2)
           /\ Says(s, d, <<Msg(type, s, d2)>>, d2)
  BY DEF Says, Msg, IsRemoval

LEMMA ExecuteSendDataInv ==
    ASSUME ClientInv, TypeOK', ExecuteSendData
    PROVE  ClientInv'
<1>1. Target \in clientSessionData /\ curOperation.sessionID \in SessionIDs
  BY TargetType DEF ClientInv, ExecuteSendData
<1>2. SocketInv(Target)
  BY <1>1 DEF ClientInv, Target
<1>3. PICK data : /\ Executed(data, <<>>)
                  /\ \/ data = Target
                     \/ \E wrote \in BOOLEAN : data = ExecuteSend(Target, wrote)
  BY DEF ExecuteSendData
<1>4. /\ data.inMap = Target.inMap /\ data.incarnation = Target.incarnation
      /\ data.removeTag = Target.removeTag /\ data.connectState = Target.connectState
  BY <1>1, <1>3, DisconnectKeeps
<1>5. SocketInv(data)
  BY <1>1, <1>2, <1>3, SendSocket
<1>6. Says(curOperation.sessionID, Target, <<>>, data)
  BY <1>4, SaysKeep
<1>7. Executing("SENDDATA") /\ Executed(data, <<>>)
  BY <1>3 DEF ExecuteSendData
<1> QED BY <1>4, <1>5, <1>6, <1>7, ExecutedSilentInv

LEMMA ExecuteDisconnectOpInv ==
    ASSUME ClientInv, TypeOK', ExecuteDisconnectOp
    PROVE  ClientInv'
<1>1. Target \in clientSessionData /\ curOperation.sessionID \in SessionIDs
  BY TargetType DEF ClientInv, ExecuteDisconnectOp
<1>2. SocketInv(Target)
  BY <1>1 DEF ClientInv, Target
<1> DEFINE leaving == [Target EXCEPT !.connectState = "DISCONNECTING"]
           data == IF Target.inMap /\ Target.connectState = "CONNECT"
                   THEN ExecuteDisconnect(leaving) ELSE Target
<1>3. leaving \in clientSessionData
  BY <1>1 DEF clientSessionData, ConnectState
<1>4. Target.connectState = "CONNECT" => SocketInv(leaving)
  BY <1>1, <1>2 DEF SocketInv, clientSessionData
<1>5. SocketInv(data)
  BY <1>2, <1>3, <1>4, DisconnectSocket
<1>6. /\ data.inMap = Target.inMap /\ data.incarnation = Target.incarnation
      /\ data.removeTag = Target.removeTag
      /\ Target.connectState = "DISCONNECT" => data.connectState = "DISCONNECT"
  <2>1. ExecuteDisconnect(leaving).inMap = leaving.inMap
           /\ ExecuteDisconnect(leaving).incarnation = leaving.incarnation
           /\ ExecuteDisconnect(leaving).removeTag = leaving.removeTag
    BY <1>3, DisconnectKeeps
  <2> QED BY <1>1, <2>1 DEF clientSessionData
<1>7. Says(curOperation.sessionID, Target, <<>>, data)
  BY <1>6, SaysKeep
<1>8. Executed(data, <<>>) /\ Executing("DISCONNECT")
  BY DEF ExecuteDisconnectOp
<1> HIDE DEF data
<1> QED BY <1>5, <1>6, <1>7, <1>8, ExecutedSilentInv

LEMMA CreateNewConnectInv ==
    ASSUME ClientInv, TypeOK', CreateNewConnect
    PROVE  ClientInv'
<1>1. Target \in clientSessionData /\ curOperation.sessionID \in SessionIDs
  BY TargetType DEF ClientInv, CreateNewConnect
<1>2. SocketInv(Target)
  BY <1>1 DEF ClientInv, Target
<1> DEFINE s == curOperation.sessionID
<1>3. NewSession \in clientSessionData /\ SocketInv(NewSession)
         /\ NewSession.inMap /\ NewSession.connectState = "DISCONNECT" /\ ~NewSession.removeTag
         /\ NewSession.tcp = "null" /\ ~NewSession.isOnline
  <2>1. NoEntry(Target.incarnation + 1) \in clientSessionData /\ m_reconnect \in BOOLEAN
    BY <1>1, EntryOperators DEF ClientInv, TypeOK
  <2>2. NewSession \in clientSessionData
    BY <2>1 DEF NewSession, clientSessionData
  <2>3. /\ NewSession.inMap = TRUE
        /\ \A f \in {"connectState", "removeTag", "isOnline", "tcp", "closing"} :
              NewSession[f] = NoEntry(Target.incarnation + 1)[f]
    BY <2>1 DEF NewSession, clientSessionData
  <2>4. /\ NewSession.connectState = "DISCONNECT" /\ NewSession.tcp = "null"
        /\ ~NewSession.removeTag /\ ~NewSession.isOnline /\ ~NewSession.closing
    BY <2>3 DEF NoEntry
  <2> QED BY <2>2, <2>3, <2>4 DEF SocketInv
<1>4. ASSUME NEW data \in clientSessionData, SocketInv(data), data.inMap,
             data.connectState = "DISCONNECT", ~data.removeTag,
             Says(s, Target, <<>>, data), ~Leaving(Target), Target.inMap => data = Target,
             NEW started \in BOOLEAN, StartConnect(data, started)
      PROVE  ClientInv'
  <2>1. CASE started
    <3>1. Executed(Connecting(data), <<>>)
      BY <1>4, <2>1 DEF StartConnect
    <3>2. SocketInv(Connecting(data))
      BY <1>4 DEF SocketInv, Connecting, clientSessionData
    <3>3. Says(s, Target, <<>>, Connecting(data))
      BY <1>4 DEF Says, Connecting, Leaving, clientSessionData
    <3>4. Executing("CONNECT")
      BY DEF CreateNewConnect
    <3> QED BY <3>1, <3>2, <3>3, <3>4, ExecutedSilentInv
  <2>2. CASE ~started
    <3>1. ~data.isOnline /\ ExecuteDisconnect(data) = data
      BY <1>4 DEF SocketInv, ExecuteDisconnect
    <3>2. Executed(data, TargetMsg("CONNECT_FAIL", data))
      BY <1>4, <2>2, <3>1 DEF StartConnect
    <3>3. Says(s, Target, TargetMsg("CONNECT_FAIL", data), data)
      BY <1>1, <1>4 DEF Says, TargetMsg, Msg, IsRemoval, Leaving
    <3>4. TargetMsg("CONNECT_FAIL", data) \in Seq(NetThreadMsg)
      BY <1>1, <1>4, OneMessage DEF TargetMsg, NetThreadMsgType
    <3>5. \A i \in DOMAIN TargetMsg("CONNECT_FAIL", data) :
             TargetMsg("CONNECT_FAIL", data)[i].sessionID = s
      BY DEF TargetMsg, Msg
    <3>6. Executing("CONNECT")
      BY DEF CreateNewConnect
    <3> QED BY <1>4, <3>2, <3>3, <3>4, <3>5, <3>6, ExecutedSaysInv
  <2> QED BY <2>1, <2>2
<1>5. PICK started \in BOOLEAN :
         IF ~Target.inMap THEN StartConnect(NewSession, started)
         ELSE IF AnnounceNow(Target) THEN StartConnect(Target, started)
         ELSE Executed(Target, <<>>)
  BY DEF CreateNewConnect
<1>6. CASE ~Target.inMap
  <2>1. Says(s, Target, <<>>, NewSession) /\ ~Leaving(Target)
    BY <1>6 DEF Says, Leaving
  <2> QED BY <1>3, <1>4, <1>5, <1>6, <2>1
<1>7. CASE Target.inMap /\ AnnounceNow(Target)
  <2>1. Says(s, Target, <<>>, Target) /\ ~Leaving(Target)
    BY <1>7, SaysKeep DEF AnnounceNow, Leaving
  <2> QED BY <1>1, <1>2, <1>4, <1>5, <1>7, <2>1 DEF AnnounceNow
<1>8. CASE Target.inMap /\ ~AnnounceNow(Target)
  <2>1. Says(s, Target, <<>>, Target)
    BY SaysKeep
  <2>2. Executed(Target, <<>>) /\ Executing("CONNECT")
    BY <1>5, <1>8 DEF CreateNewConnect
  <2> QED BY <1>2, <2>1, <2>2, ExecutedSilentInv
<1> QED BY <1>6, <1>7, <1>8

LEMMA ExecuteRemoveSessionInv ==
    ASSUME ClientInv, TypeOK', ExecuteRemoveSession
    PROVE  ClientInv'
<1>1. Target \in clientSessionData /\ curOperation.sessionID \in SessionIDs
  BY TargetType DEF ClientInv, ExecuteRemoveSession
<1>2. SocketInv(Target)
  BY <1>1 DEF ClientInv, Target
<1> DEFINE s == curOperation.sessionID
           tagged == [Target EXCEPT !.removeTag = TRUE]
<1>3. /\ tagged \in clientSessionData /\ tagged.removeTag
      /\ tagged.inMap = Target.inMap /\ tagged.incarnation = Target.incarnation
      /\ tagged.connectState = Target.connectState
      /\ Target.inMap => SocketInv(tagged)
  BY <1>1, <1>2 DEF SocketInv, clientSessionData
<1>4. Executing("REMOVE_SESSION")
  BY DEF ExecuteRemoveSession
<1>5. CASE Target.inMap /\ AnnounceNow(Target)
  <2>1. Executed(tagged, TargetMsg("REMOVE_SESSION", Target))
    BY <1>5 DEF ExecuteRemoveSession
  <2>2. ~Leaving(Target) /\ Leaving(tagged)
    BY <1>3, <1>5 DEF AnnounceNow, Leaving
  <2> HIDE DEF tagged
  <2>3. Says(s, Target, TargetMsg("REMOVE_SESSION", Target), tagged)
    BY <1>1, <1>3, <1>5, <2>2, SaysOne DEF TargetMsg
  <2>4. TargetMsg("REMOVE_SESSION", Target) \in Seq(NetThreadMsg)
    BY <1>1, OneMessage DEF TargetMsg, NetThreadMsgType
  <2>5. \A i \in DOMAIN TargetMsg("REMOVE_SESSION", Target) :
           TargetMsg("REMOVE_SESSION", Target)[i].sessionID = s
    BY DEF TargetMsg, Msg
  <2> QED BY <1>3, <1>4, <1>5, <2>1, <2>3, <2>4, <2>5, ExecutedSaysInv
<1>6. CASE /\ ~(Target.inMap /\ AnnounceNow(Target))
           /\ Target.inMap /\ Target.connectState # "DISCONNECT"
  <2> DEFINE data == ExecuteDisconnect(tagged)
  <2>1. Executed(data, <<>>)
    BY <1>6 DEF ExecuteRemoveSession
  <2>2. SocketInv(data)
    BY <1>3, <1>6, DisconnectSocket
  <2>3. /\ data.inMap = tagged.inMap /\ data.incarnation = tagged.incarnation
        /\ data.removeTag = tagged.removeTag /\ data.connectState = tagged.connectState
    BY <1>3, DisconnectKeeps
  <2> HIDE DEF data, tagged
  <2>4. Says(s, Target, <<>>, data)
    BY <1>3, <1>6, <2>3, SaysKeep
  <2> QED BY <1>4, <1>6, <2>1, <2>2, <2>4, ExecutedSilentInv
<1>7. CASE /\ ~(Target.inMap /\ AnnounceNow(Target))
           /\ ~(Target.inMap /\ Target.connectState # "DISCONNECT")
  <2>1. Executed(Target, <<>>)
    BY <1>7 DEF ExecuteRemoveSession
  <2>2. Says(s, Target, <<>>, Target)
    BY SaysKeep
  <2> QED BY <1>2, <1>4, <2>1, <2>2, ExecutedSilentInv
<1> QED BY <1>5, <1>6, <1>7

(* Of a session whose deletion is executed nothing is said any more. *)
LEMMA ExecuteDeleteSessionInv ==
    ASSUME ClientInv, TypeOK', ExecuteDeleteSession
    PROVE  ClientInv'
<1> DEFINE s == curOperation.sessionID
           data == Deleted(Target)
           msgs == <<>>
<1>1. Target \in clientSessionData /\ s \in SessionIDs
  BY TargetType DEF ClientInv, ExecuteDeleteSession
<1>2. SocketInv(Target) /\ SessionInv(s, Messages, Operations, Target)
  BY <1>1 DEF ClientInv, Target
<1>3. SocketInv(data) /\ (data.inMap => Target.inMap)
  BY <1>2 DEF Deleted, NoEntry, SocketInv
<1>4. Executing("DELETE_SESSION") /\ Executed(data, msgs)
  BY DEF ExecuteDeleteSession
<1>5. IsDeletion(curOperation, s)
  BY <1>4 DEF Executing, IsDeletion
<1>6. /\ Operations # <<>> /\ Head(Operations) = curOperation
      /\ Operations \in Seq(SessionOperation) /\ Messages \in Seq(NetThreadMsg)
  BY <1>4, ExecutingStream, StreamTypes DEF ClientInv
<1>7. msgs \in Seq(NetThreadMsg) /\ DOMAIN msgs = {} /\ Messages \o msgs = Messages
  BY <1>6, EmptyMessages, ConcatEmptySeq
<1> HIDE DEF data, msgs, s
<1>8. SessionInv(s, Messages \o msgs, Tail(Operations), data)
  BY <1>2, <1>5, <1>6, <1>7, TakeInv
<1>9. \A i \in DOMAIN msgs : msgs[i].sessionID = s
  BY <1>7
<1> QED BY <1>3, <1>4, <1>7, <1>8, <1>9, ExecutedInv DEF s

(* A step that says nothing and that the streams do not notice. *)
LEMMA QuietStepInv ==
    ASSUME ClientInv, TypeOK', Messages' = Messages,
           Operations' = Operations \/ (Operations # <<>> /\ Operations' = Tail(Operations)),
           UNCHANGED <<m_isStop, app, m_msgDispatchQue, closeClientTag, closed>>,
           loop = "exited" => loop' = "exited",
           CloseOrder(Operations', m_isStop, m_clientStage'),
           m_clientStage' \in {"WAIT_EXIT", "STOP"} => m_clientStage \in {"WAIT_EXIT", "STOP"},
           loop' # "running" => m_clientStage' \in {"WAIT_EXIT", "STOP"},
           \A s \in SessionIDs :
              /\ SocketInv(m_allSessionMap'[s])
              /\ m_allSessionMap'[s].inMap = m_allSessionMap[s].inMap
              /\ m_allSessionMap'[s].incarnation = m_allSessionMap[s].incarnation
              /\ m_allSessionMap'[s].removeTag = m_allSessionMap[s].removeTag
              /\ m_allSessionMap'[s].connectState = m_allSessionMap[s].connectState
    PROVE  ClientInv'
<1>1. Operations \in Seq(SessionOperation)
  BY StreamTypes DEF ClientInv
<1>2. ASSUME NEW s \in SessionIDs
      PROVE  SessionInv(s, Messages', Operations', m_allSessionMap'[s])
  <2>1. SessionInv(s, Messages, Operations, m_allSessionMap[s])
    BY DEF ClientInv
  <2>2. SessionInv(s, Messages, Operations', m_allSessionMap[s])
    BY <1>1, <2>1, TakeInv
  <2>3. Leaving(m_allSessionMap'[s]) = Leaving(m_allSessionMap[s])
    BY DEF Leaving
  <2> QED BY <2>2, <2>3 DEF SessionInv
<1>3. StageInv'
  <2>1. m_clientStage' \in {"WAIT_EXIT", "STOP"} => \A s \in SessionIDs : ~InMap(s)'
    BY DEF ClientInv, StageInv, InMap
  <2> QED BY <2>1 DEF ClientInv, StageInv
<1>4. ExitInv'
  BY DEF ClientInv, ExitInv
<1> QED BY <1>2, <1>3, <1>4 DEF ClientInv

LEMMA ExecuteSetAutoConnectInv ==
    ASSUME ClientInv, TypeOK', ExecuteSetAutoConnect
    PROVE  ClientInv'
<1>1. Operations # <<>> /\ Operations' = Tail(Operations) /\ Operations \in Seq(SessionOperation)
  BY ExecutingStream, StreamTypes DEF ExecuteSetAutoConnect, ClientInv
<1>2. Messages' = Messages
  BY DEF ExecuteSetAutoConnect, Executing, appVars, Messages
<1>3. CloseOrder(Operations', m_isStop, m_clientStage')
  BY <1>1, CloseOrderTail DEF ClientInv, StageInv, ExecuteSetAutoConnect
<1>4. ASSUME NEW s \in SessionIDs
      PROVE  /\ SocketInv(m_allSessionMap'[s])
             /\ m_allSessionMap'[s].inMap = m_allSessionMap[s].inMap
             /\ m_allSessionMap'[s].incarnation = m_allSessionMap[s].incarnation
             /\ m_allSessionMap'[s].removeTag = m_allSessionMap[s].removeTag
             /\ m_allSessionMap'[s].connectState = m_allSessionMap[s].connectState
  <2>1. SocketInv(m_allSessionMap[s]) /\ m_allSessionMap[s] \in clientSessionData
    BY DEF ClientInv, TypeOK
  <2>2. \/ m_allSessionMap'[s] = m_allSessionMap[s]
        \/ m_allSessionMap'[s] = [m_allSessionMap[s] EXCEPT !.reconnect = curOperation.isAuto]
    BY DEF ExecuteSetAutoConnect
  <2> QED BY <2>1, <2>2 DEF SocketInv, clientSessionData
<1>5. /\ UNCHANGED <<m_isStop, app, m_msgDispatchQue, closeClientTag, closed, loop, m_clientStage>>
      /\ loop = "running"
  BY DEF ExecuteSetAutoConnect, Executing, appVars
<1> QED BY <1>1, <1>2, <1>3, <1>4, <1>5, QuietStepInv

LEMMA ExecuteClientCloseInv ==
    ASSUME ClientInv, TypeOK', ExecuteClientClose
    PROVE  ClientInv'
<1>1. /\ Operations # <<>> /\ Head(Operations) = curOperation /\ Operations' = Tail(Operations)
      /\ Operations \in Seq(SessionOperation)
  BY ExecutingStream, StreamTypes DEF ExecuteClientClose, ClientInv
<1>2. Messages' = Messages
  BY DEF ExecuteClientClose, Executing, appVars, Messages
<1>3. CloseOrder(Operations', m_isStop, m_clientStage')
  <2>1. /\ Len(Operations) \in Nat \ {0} /\ DOMAIN Operations = 1 .. Len(Operations)
        /\ DOMAIN Tail(Operations) = 1 .. Len(Operations) - 1
        /\ \A i \in DOMAIN Tail(Operations) :
              i + 1 \in DOMAIN Operations /\ Tail(Operations)[i] = Operations[i + 1]
        /\ 1 \in DOMAIN Operations /\ curOperation = Operations[1]
    BY <1>1, HeadTailProperties, LenProperties, EmptySeq
  <2>2. Operations[1].type = "CLIENT_CLOSE"
    BY <2>1 DEF ExecuteClientClose, Executing
  <2>3. m_isStop /\ \A j \in DOMAIN Operations : 1 < j => Operations[j].type # "CONNECT"
    BY <2>1, <2>2 DEF ClientInv, StageInv, CloseOrder
  <2>4. \A i \in DOMAIN Tail(Operations) : Tail(Operations)[i].type # "CONNECT"
    BY <2>1, <2>3
  <2> QED BY <1>1, <2>3, <2>4 DEF CloseOrder
<1>4. /\ UNCHANGED <<m_isStop, app, m_msgDispatchQue, closeClientTag, closed, loop,
                     m_allSessionMap>>
      /\ loop = "running" /\ m_clientStage' = "CLEAR_SESSION"
  BY DEF ExecuteClientClose, Executing, appVars
<1>5. \A s \in SessionIDs : SocketInv(m_allSessionMap[s])
  BY DEF ClientInv
<1> QED BY <1>1, <1>2, <1>3, <1>4, <1>5, QuietStepInv

-----------------------------------------------------------------------------
(* The loop thread: its other callbacks.                                   *)

LEMMA CallbackInv ==
    ASSUME ClientInv, TypeOK', NEW s \in SessionIDs, NEW data, NEW msgs \in Seq(NetThreadMsg),
           Callback(s, data, msgs), \A i \in DOMAIN msgs : msgs[i].sessionID = s,
           SocketInv(data), Says(s, m_allSessionMap[s], msgs, data),
           data.inMap => m_allSessionMap[s].inMap
    PROVE  ClientInv'
<1>1. Messages \in Seq(NetThreadMsg) /\ SessionInv(s, Messages, Operations, m_allSessionMap[s])
  BY StreamTypes DEF ClientInv
<1>2. Operations' = Operations
  BY DEF Callback, Operations
<1>3. m_allSessionMap'[s] = data
         /\ \A t \in SessionIDs \ {s} : m_allSessionMap'[t] = m_allSessionMap[t]
  BY DEF Callback, ClientInv, TypeOK
<1>4. SessionInv(s, Messages \o msgs, Operations', data)
  BY <1>1, <1>2, SayInv
<1>5. m_clientStage \in {"WAIT_EXIT", "STOP"} => ~data.inMap
  BY DEF ClientInv, StageInv, InMap
<1>6. /\ loop = "running" /\ UNCHANGED <<appVars, loop, m_clientStage>>
      /\ m_msgQue' = m_msgQue \o msgs
  BY DEF Callback, LoopFree
<1> QED BY <1>2, <1>3, <1>4, <1>5, <1>6, LoopStepInv

LEMMA CallbackSilentInv ==
    ASSUME ClientInv, TypeOK', NEW s \in SessionIDs, NEW data, Callback(s, data, <<>>),
           SocketInv(data), Says(s, m_allSessionMap[s], <<>>, data),
           data.inMap => m_allSessionMap[s].inMap
    PROVE  ClientInv'
<1> DEFINE msgs == <<>>
<1>1. msgs \in Seq(NetThreadMsg) /\ DOMAIN msgs = {}
  BY EmptyMessages
<1>2. Callback(s, data, msgs) /\ Says(s, m_allSessionMap[s], msgs, data)
  OBVIOUS
<1> HIDE DEF msgs
<1>3. \A i \in DOMAIN msgs : msgs[i].sessionID = s
  BY <1>1
<1> QED BY <1>1, <1>2, <1>3, CallbackInv

LEMMA CallbackOneInv ==
    ASSUME ClientInv, TypeOK', NEW s \in SessionIDs, NEW data \in clientSessionData,
           NEW type \in NetThreadMsgType \ {"EXIT_LOOP", "REMOVE_SESSION"},
           Callback(s, data, <<Msg(type, s, m_allSessionMap[s])>>),
           SocketInv(data), data.inMap, m_allSessionMap[s].inMap,
           data.incarnation = m_allSessionMap[s].incarnation, ~Leaving(m_allSessionMap[s])
    PROVE  ClientInv'
<1> DEFINE msgs == <<Msg(type, s, m_allSessionMap[s])>>
<1>1. m_allSessionMap[s] \in clientSessionData
  BY DEF ClientInv, TypeOK
<1>2. msgs \in Seq(NetThreadMsg)
  BY <1>1, OneMessage
<1>3. Says(s, m_allSessionMap[s], msgs, data)
  BY <1>1, SaysOne
<1>4. \A i \in DOMAIN msgs : msgs[i].sessionID = s
  BY DEF Msg
<1>5. Callback(s, data, msgs)
  OBVIOUS
<1> HIDE DEF msgs
<1> QED BY <1>2, <1>3, <1>4, <1>5, CallbackInv

LEMMA ReconnectInv ==
    ASSUME ClientInv, TypeOK', NEW s \in SessionIDs, Reconnect(s)
    PROVE  ClientInv'
<1> DEFINE data == m_allSessionMap[s]
<1>1. data \in clientSessionData /\ SocketInv(data)
  BY DEF ClientInv, TypeOK
<1>2. data.inMap /\ data.connectState = "DISCONNECT" /\ ~data.removeTag
         /\ Callback(s, Connecting(data), <<>>)
  BY DEF Reconnect, AnnounceNow
<1>3. SocketInv(Connecting(data))
  BY <1>1, <1>2 DEF SocketInv, Connecting, clientSessionData
<1>4. Says(s, data, <<>>, Connecting(data))
  BY <1>1, <1>2 DEF Says, Connecting, Leaving, clientSessionData
<1> QED BY <1>2, <1>3, <1>4, CallbackSilentInv

(* The session goes offline, or its socket closes itself. *)
LEMMA OfflineInv ==
    ASSUME ClientInv, TypeOK', NEW s \in SessionIDs,
           HeartbeatLost(s) \/ OnIllegalData(s) \/ OnEof(s)
    PROVE  ClientInv'
<1> DEFINE data == m_allSessionMap[s]
<1>1. data \in clientSessionData /\ SocketInv(data)
  BY DEF ClientInv, TypeOK
<1>2. \A d \in {ExecuteDisconnect(data), SocketDisconnect(data)} :
         Says(s, data, <<>>, d) /\ d.inMap = data.inMap
  BY <1>1, DisconnectKeeps, SaysKeep
<1>3. CASE HeartbeatLost(s) \/ OnIllegalData(s)
  <2>1. Callback(s, ExecuteDisconnect(data), <<>>)
    BY <1>3 DEF HeartbeatLost, OnIllegalData
  <2>2. SocketInv(ExecuteDisconnect(data))
    BY <1>1, DisconnectSocket
  <2> QED BY <1>2, <2>1, <2>2, CallbackSilentInv
<1>4. CASE OnEof(s)
  <2>1. Callback(s, SocketDisconnect(data), <<>>) /\ data.tcp = "open"
    BY <1>4 DEF OnEof, Reading
  <2>2. data.connectState \in {"CONNECT", "DISCONNECTING"}
    BY <1>1, <2>1 DEF SocketInv, clientSessionData, ConnectState
  <2>3. SocketDisconnect(data) = [data EXCEPT !.tcp = "null", !.closing = TRUE]
    BY <1>1, <2>1 DEF SocketDisconnect, clientSessionData
  <2>4. SocketInv(SocketDisconnect(data))
    BY <1>1, <2>2, <2>3 DEF SocketInv, clientSessionData
  <2> QED BY <1>2, <2>1, <2>4, CallbackSilentInv
<1> QED BY <1>3, <1>4

LEMMA OnSessionRecvDataInv ==
    ASSUME ClientInv, TypeOK', NEW s \in SessionIDs, OnSessionRecvData(s)
    PROVE  ClientInv'
<1>1. m_allSessionMap[s] \in clientSessionData /\ SocketInv(m_allSessionMap[s])
  BY DEF ClientInv, TypeOK
<1>2. Callback(s, m_allSessionMap[s], <<Msg("RECV_DATA", s, m_allSessionMap[s])>>)
         /\ m_allSessionMap[s].tcp = "open"
  BY DEF OnSessionRecvData, Reading
<1>3. m_allSessionMap[s].inMap /\ ~Leaving(m_allSessionMap[s])
  BY <1>1, <1>2 DEF SocketInv, Leaving, clientSessionData
<1>4. "RECV_DATA" \in NetThreadMsgType \ {"EXIT_LOOP", "REMOVE_SESSION"}
  BY DEF NetThreadMsgType
<1> QED BY <1>1, <1>2, <1>3, <1>4, CallbackOneInv

LEMMA OnIllegalHeartInv ==
    ASSUME ClientInv, TypeOK', NEW s \in SessionIDs, OnIllegalHeart(s)
    PROVE  ClientInv'
<1>1. Op("DISCONNECT", s) \in SessionOperation /\ Op("DISCONNECT", s).type = "DISCONNECT"
  BY OperationTypes DEF Op, OperationType
<1>2. \A t : ~IsDeletion(Op("DISCONNECT", s), t)
  BY NoDeletion
<1>3. /\ PushOperation(Op("DISCONNECT", s))
      /\ UNCHANGED <<m_msgDispatchQue, closeClientTag, closed, m_msgQue, loopVars, m_isStop, app>>
  BY DEF OnIllegalHeart, appVars
<1>4. app' # "polling" => m_msgDispatchQue = <<>>
  BY <1>3 DEF ClientInv, StageInv
<1> QED BY <1>1, <1>2, <1>3, <1>4, PushStepInv

LEMMA OnSessionCloseInv ==
    ASSUME ClientInv, TypeOK', NEW s \in SessionIDs, OnSessionClose(s)
    PROVE  ClientInv'
<1> DEFINE data == m_allSessionMap[s]
           msgs == CloseMsgs(s, data)
<1>1. data \in clientSessionData /\ SocketInv(data)
  BY DEF ClientInv, TypeOK
<1>2. data.closing /\ Callback(s, Closed(data), msgs)
  BY DEF OnSessionClose
<1>3. /\ data.connectState \in {"CONNECT", "DISCONNECTING"}
      /\ data.inMap /\ ~Leaving(data) /\ data.tcp = "null"
  BY <1>1, <1>2 DEF SocketInv, Leaving, clientSessionData, ConnectState
<1>4. /\ Closed(data).inMap /\ Closed(data).incarnation = data.incarnation
      /\ Closed(data).removeTag = data.removeTag
      /\ Closed(data).connectState = "DISCONNECT" /\ Closed(data).tcp = "null"
      /\ ~Closed(data).closing /\ ~Closed(data).isOnline
  BY <1>1, <1>3 DEF Closed, OnSocketClose, clientSessionData
<1>5. SocketInv(Closed(data))
  BY <1>4 DEF SocketInv
<1>6. \/ msgs = <<Msg("DIS_CONNECT", s, data)>>
      \/ data.removeTag /\ msgs = <<Msg("DIS_CONNECT", s, data), Msg("REMOVE_SESSION", s, data)>>
  <2> DEFINE u == Msg("DIS_CONNECT", s, data)
             v == Msg("REMOVE_SESSION", s, data)
  <2>1. <<u>> \in Seq(NetThreadMsg) /\ <<v>> \in Seq(NetThreadMsg)
    BY <1>1, OneMessage DEF NetThreadMsgType
  <2>2. msgs = <<u>> \o IF data.removeTag THEN <<v>> ELSE <<>>
    BY DEF CloseMsgs
  <2> HIDE DEF u, v, msgs
  <2>3. <<u>> \o <<>> = <<u>>
    BY <2>1, ConcatEmptySeq
  <2>4. <<u>> \o <<v>> = <<u, v>>
    <3>1. u \in NetThreadMsg /\ v \in NetThreadMsg
      BY <1>1, MessageTypes DEF u, v, NetThreadMsgType
    <3>2. <<u, v>> \in Seq(NetThreadMsg) /\ Append(<<u>>, v) \in Seq(NetThreadMsg)
      BY <2>1, <3>1, AppendProperties
    <3>3. Len(Append(<<u>>, v)) = 2 /\ \A i \in 1 .. 2 : Append(<<u>>, v)[i] = <<u, v>>[i]
      BY <2>1, <3>1, AppendProperties
    <3>4. Append(<<u>>, v) = <<u, v>>
      BY <3>2, <3>3, SeqEqual
    <3> QED BY <2>1, <3>1, <3>4, AppendIsConcat
  <2>5. CASE data.removeTag
    BY <2>2, <2>4, <2>5 DEF u, v
  <2>6. CASE ~data.removeTag
    BY <2>2, <2>3, <2>6 DEF u
  <2> QED BY <2>5, <2>6
<1>7. Says(s, data, msgs, Closed(data))
  <2>1. CASE msgs = <<Msg("DIS_CONNECT", s, data)>>
    BY <1>3, <1>4, <2>1 DEF Says, IsRemoval, Msg
  <2>2. CASE /\ data.removeTag
             /\ msgs = <<Msg("DIS_CONNECT", s, data), Msg("REMOVE_SESSION", s, data)>>
    <3> HIDE DEF data
    <3>1. DOMAIN msgs = 1 .. 2 /\ msgs[1] = Msg("DIS_CONNECT", s, data)
             /\ msgs[2] = Msg("REMOVE_SESSION", s, data)
      BY <2>2
    <3>2. \A i \in DOMAIN msgs : msgs[i].sessionID = s /\ msgs[i].incarnation = data.incarnation
      BY <3>1 DEF Msg
    <3>3. \A i \in DOMAIN msgs : IsRemoval(msgs[i], s) => i = 2
      BY <3>1 DEF Msg, IsRemoval
    <3>4. Leaving(Closed(data))
      BY <1>4, <2>2 DEF Leaving
    <3>5. \A i \in DOMAIN msgs : IsRemoval(msgs[i], s) =>
             Leaving(Closed(data)) /\ \A j \in DOMAIN msgs : msgs[j].sessionID = s => j <= i
      BY <3>1, <3>3, <3>4
    <3> QED BY <1>3, <1>4, <3>2, <3>5 DEF Says
  <2> QED BY <1>6, <2>1, <2>2
<1>8. msgs \in Seq(NetThreadMsg)
  BY <1>1, CloseMessages
<1>9. \A i \in DOMAIN msgs : msgs[i].sessionID = s
  BY <1>6 DEF Msg
<1> HIDE DEF msgs
<1> QED BY <1>2, <1>3, <1>5, <1>7, <1>8, <1>9, CallbackInv

LEMMA OnSocketConnectInv ==
    ASSUME ClientInv, TypeOK', NEW s \in SessionIDs, NEW readStarted \in BOOLEAN,
           OnSocketConnect(s, readStarted)
    PROVE  ClientInv'
<1> DEFINE data == m_allSessionMap[s]
           status == IF data.tcp = "connected" /\ ~readStarted
                     THEN 0 ELSE ConnectStatus(UvStatus(data.tcp))
           after == [data EXCEPT !.tcp = IF status = 1 THEN "open" ELSE "idle",
                                 !.isOnline = (status = 1),
                                 !.connectState = IF status = 1 THEN "CONNECT" ELSE "DISCONNECT"]
<1>1. data \in clientSessionData /\ SocketInv(data)
  BY DEF ClientInv, TypeOK
<1>2. data.tcp \in {"connected", "refused", "timedout"}
  BY DEF OnSocketConnect
<1>3. data.connectState = "CONNECTING" /\ data.inMap /\ ~data.closing
  BY <1>1, <1>2 DEF SocketInv, clientSessionData, ConnectState
<1>4. ~Leaving(data)
  BY <1>3 DEF Leaving
<1>5. status \in {0, 1, 2}
  BY DEF ConnectStatus
<1>6. ConnectMsg(status) \in NetThreadMsgType \ {"EXIT_LOOP", "REMOVE_SESSION"}
  BY <1>5 DEF ConnectMsg, NetThreadMsgType
<1>7. Callback(s, ExecuteDisconnect(after), <<>>)
         \/ Callback(s, after, <<Msg(ConnectMsg(status), s, data)>>)
  BY DEF OnSocketConnect
<1> HIDE DEF status
<1>8. /\ after \in clientSessionData /\ SocketInv(after)
      /\ after.inMap /\ after.incarnation = data.incarnation /\ after.removeTag = data.removeTag
  <2>1. CASE status = 1
    BY <1>1, <1>3, <2>1 DEF SocketInv, clientSessionData, ConnectState, TcpHandle
  <2>2. CASE status # 1
    BY <1>1, <1>3, <2>2 DEF SocketInv, clientSessionData, ConnectState, TcpHandle
  <2> QED BY <2>1, <2>2
<1> HIDE DEF after
<1>9. CASE Callback(s, ExecuteDisconnect(after), <<>>)
  <2>1. SocketInv(ExecuteDisconnect(after))
    BY <1>8, DisconnectSocket
  <2>2. /\ ExecuteDisconnect(after).inMap = after.inMap
        /\ ExecuteDisconnect(after).incarnation = after.incarnation
        /\ ExecuteDisconnect(after).removeTag = after.removeTag
    BY <1>8, DisconnectKeeps
  <2>3. Says(s, data, <<>>, ExecuteDisconnect(after))
    BY <1>3, <1>8, <2>2 DEF Says, Leaving
  <2> QED BY <1>3, <1>9, <2>1, <2>3, CallbackSilentInv
<1>10. CASE Callback(s, after, <<Msg(ConnectMsg(status), s, data)>>)
  BY <1>3, <1>4, <1>6, <1>8, <1>10, CallbackOneInv
<1> QED BY <1>7, <1>9, <1>10

LEMMA KernelConnectInv ==
    ASSUME ClientInv, TypeOK', NEW s \in SessionIDs, NEW outcome \in Outcomes,
           KernelConnect(s, outcome)
    PROVE  ClientInv'
<1> DEFINE data == m_allSessionMap[s]
<1>1. data \in clientSessionData /\ SocketInv(data) /\ data.tcp = "connecting"
  BY DEF ClientInv, TypeOK, KernelConnect
<1>2. data.connectState = "CONNECTING" /\ data.inMap /\ ~data.closing /\ ~data.isOnline
  BY <1>1 DEF SocketInv, clientSessionData, ConnectState
<1>3. SocketInv([data EXCEPT !.tcp = outcome])
  BY <1>1, <1>2, OutcomesAssumption DEF SocketInv, clientSessionData
<1>4. m_allSessionMap'[s] = [data EXCEPT !.tcp = outcome]
         /\ \A t \in SessionIDs \ {s} : m_allSessionMap'[t] = m_allSessionMap[t]
  BY DEF KernelConnect, ClientInv, TypeOK
<1>5. ASSUME NEW t \in SessionIDs
      PROVE  /\ SocketInv(m_allSessionMap'[t])
             /\ m_allSessionMap'[t].inMap = m_allSessionMap[t].inMap
             /\ m_allSessionMap'[t].incarnation = m_allSessionMap[t].incarnation
             /\ m_allSessionMap'[t].removeTag = m_allSessionMap[t].removeTag
             /\ m_allSessionMap'[t].connectState = m_allSessionMap[t].connectState
  <2>1. CASE t = s
    BY <1>1, <1>3, <1>4, <2>1 DEF clientSessionData
  <2>2. CASE t # s
    BY <1>4, <2>2 DEF ClientInv
  <2> QED BY <2>1, <2>2
<1>6. /\ Messages' = Messages /\ Operations' = Operations
      /\ UNCHANGED <<m_isStop, app, m_msgDispatchQue, closeClientTag, closed, loop, m_clientStage>>
  BY DEF KernelConnect, appVars, Messages, Operations
<1>7. /\ CloseOrder(Operations, m_isStop, m_clientStage)
      /\ loop # "running" => m_clientStage \in {"WAIT_EXIT", "STOP"}
  BY DEF ClientInv, StageInv
<1> QED BY <1>5, <1>6, <1>7, QuietStepInv

(* The sweep says one thing of each session it removes, and nothing of     *)
(* those it disconnects.                                                   *)
LEMMA SweepSays ==
    ASSUME TypeOK, NEW order \in SetToSeqs(ToRemove), NEW s \in SessionIDs, NEW d2,
           NEW msgs, msgs = [i \in DOMAIN order |->
                               Msg("REMOVE_SESSION", order[i], m_allSessionMap[order[i]])],
           d2.inMap = m_allSessionMap[s].inMap, d2.incarnation = m_allSessionMap[s].incarnation,
           d2.connectState = m_allSessionMap[s].connectState,
           m_allSessionMap[s].removeTag \/ s \in ToRemove => d2.removeTag
    PROVE  Says(s, m_allSessionMap[s], msgs, d2)
<1>1. IsFiniteSet(ToRemove) /\ ToRemove \subseteq SessionIDs
  BY SessionAssumption, FS_Subset DEF ToRemove
<1>2. /\ DOMAIN order = 1 .. Cardinality(ToRemove) /\ Cardinality(ToRemove) \in Nat
      /\ \A i \in DOMAIN order : order[i] \in ToRemove
      /\ \A i, j \in DOMAIN order : i # j => order[i] # order[j]
  BY <1>1, FS_CardinalityType DEF SetToSeqs
<1>3. DOMAIN msgs = DOMAIN order
         /\ \A i \in DOMAIN msgs : msgs[i].sessionID = order[i]
                /\ msgs[i].incarnation = m_allSessionMap[order[i]].incarnation
  BY DEF Msg
<1>4. CASE s \in ToRemove
  <2>1. Leaving(d2) /\ ~Leaving(m_allSessionMap[s])
    BY <1>4 DEF ToRemove, AnnounceNow, Leaving
  <2>2. \A i, j \in DOMAIN msgs : msgs[i].sessionID = s /\ msgs[j].sessionID = s => j = i
    BY <1>2, <1>3
  <2>3. \A i \in DOMAIN msgs : i \in Nat
    BY <1>2, <1>3
  <2>4. \A i \in DOMAIN msgs : IsRemoval(msgs[i], s) =>
           \A j \in DOMAIN msgs : msgs[j].sessionID = s => j <= i
    BY <2>2, <2>3 DEF IsRemoval
  <2>5. d2.inMap
    BY <2>1 DEF Leaving
  <2> QED BY <1>3, <2>1, <2>4, <2>5 DEF Says
<1>5. CASE s \notin ToRemove
  <2>1. \A i \in DOMAIN msgs : msgs[i].sessionID # s
    BY <1>2, <1>3, <1>5
  <2>2. Leaving(m_allSessionMap[s]) => Leaving(d2)
    BY DEF Leaving
  <2> QED BY <2>1, <2>2 DEF Says, IsRemoval
<1> QED BY <1>4, <1>5

LEMMA ClearSessionsInv ==
    ASSUME ClientInv, TypeOK', ClearSessions
    PROVE  ClientInv'
<1>1. Messages \in Seq(NetThreadMsg)
  BY StreamTypes DEF ClientInv
<1>2. PICK order \in SetToSeqs(ToRemove) :
         m_msgQue' = m_msgQue \o [i \in DOMAIN order |->
                                    Msg("REMOVE_SESSION", order[i], m_allSessionMap[order[i]])]
  BY DEF ClearSessions
<1> DEFINE msgs == [i \in DOMAIN order |->
                      Msg("REMOVE_SESSION", order[i], m_allSessionMap[order[i]])]
<1>3. msgs \in Seq(NetThreadMsg)
  BY SweepMessages DEF ClientInv
<1>4. Messages' = Messages \o msgs
  BY <1>2, <1>3, SayMessages DEF ClearSessions, ClientInv, appVars
<1>5. /\ UNCHANGED <<m_isStop, app, m_msgDispatchQue, closeClientTag, closed, loop>>
      /\ Operations' = Operations /\ loop = "running" /\ m_clientStage = "CLEAR_SESSION"
      /\ m_clientStage' = IF \E s \in SessionIDs : m_allSessionMap[s].inMap
                          THEN "CLEAR_SESSION" ELSE "WAIT_EXIT"
  BY DEF ClearSessions, LoopFree, appVars, Operations
<1>6. ASSUME NEW s \in SessionIDs
      PROVE  /\ SocketInv(m_allSessionMap'[s])
             /\ SessionInv(s, Messages', Operations', m_allSessionMap'[s])
             /\ m_allSessionMap'[s].inMap = m_allSessionMap[s].inMap
  <2> DEFINE d  == m_allSessionMap[s]
             d2 == m_allSessionMap'[s]
             tagged == [d EXCEPT !.removeTag = TRUE]
  <2>1. d \in clientSessionData /\ SocketInv(d) /\ SessionInv(s, Messages, Operations, d)
    BY DEF ClientInv, TypeOK
  <2>2. /\ tagged \in clientSessionData /\ tagged.removeTag
        /\ tagged.inMap = d.inMap /\ tagged.incarnation = d.incarnation
        /\ tagged.connectState = d.connectState
        /\ d.inMap => SocketInv(tagged)
    BY <2>1 DEF SocketInv, clientSessionData
  <2>3. d2 = IF s \in ToClose THEN ExecuteDisconnect(tagged)
             ELSE IF s \in ToRemove THEN tagged ELSE d
    BY DEF ClearSessions
  <2>4. s \in ToClose \cup ToRemove => d.inMap
    BY DEF ToClose, ToRemove
  <2>5. s \in ToClose => d.connectState = "CONNECT"
    BY DEF ToClose
  <2> HIDE DEF tagged
  <2>6. /\ ExecuteDisconnect(tagged).inMap = tagged.inMap
        /\ ExecuteDisconnect(tagged).incarnation = tagged.incarnation
        /\ ExecuteDisconnect(tagged).removeTag = tagged.removeTag
        /\ ExecuteDisconnect(tagged).connectState = tagged.connectState
    BY <2>2, DisconnectKeeps
  <2>7. SocketInv(d2)
    BY <2>1, <2>2, <2>3, <2>4, DisconnectSocket
  <2>8. /\ d2.inMap = d.inMap /\ d2.incarnation = d.incarnation
        /\ d2.connectState = d.connectState
        /\ d.removeTag \/ s \in ToRemove => d2.removeTag
    BY <2>2, <2>3, <2>6
  <2> HIDE DEF d2
  <2>9. Says(s, d, msgs, d2)
    BY <2>8, SweepSays DEF ClientInv
  <2> HIDE DEF d, msgs
  <2>10. SessionInv(s, Messages \o msgs, Operations, d2)
    BY <1>1, <1>3, <2>1, <2>9, SayInv
  <2> QED BY <1>4, <1>5, <2>7, <2>8, <2>10 DEF d, d2
<1>7. StageInv'
  <2>1. CloseOrder(Operations', m_isStop', m_clientStage')
    BY <1>5 DEF ClientInv, StageInv, CloseOrder
  <2>2. m_clientStage' \in {"WAIT_EXIT", "STOP"} => \A s \in SessionIDs : ~InMap(s)'
    BY <1>5, <1>6 DEF InMap
  <2> QED BY <1>5, <2>1, <2>2 DEF ClientInv, StageInv
<1>8. ExitInv'
  <2>1. \A i \in DOMAIN msgs : msgs[i].sessionID # NoSession
    <3>1. IsFiniteSet(ToRemove) /\ ToRemove \subseteq SessionIDs
      BY SessionAssumption, FS_Subset DEF ToRemove
    <3>2. \A i \in DOMAIN order : order[i] \in SessionIDs
      BY <3>1, FS_CardinalityType DEF SetToSeqs
    <3> QED BY <3>2, SessionAssumption DEF Msg
  <2> HIDE DEF msgs
  <2> QED BY <1>3, <1>4, <1>5, <2>1, SayExitInv DEF ClientInv
<1> QED BY <1>6, <1>7, <1>8 DEF ClientInv

(* The loop thread leaves: uv_run ends, run() returns and pushes EXIT_LOOP. *)
LEMMA ExitInvStep ==
    ASSUME ClientInv, TypeOK', WaitExit \/ Run
    PROVE  ClientInv'
<1>1. /\ CloseOrder(Operations, m_isStop, m_clientStage)
      /\ loop # "running" => m_clientStage \in {"WAIT_EXIT", "STOP"}
  BY DEF ClientInv, StageInv
<1>2. UNCHANGED <<m_isStop, app, m_msgDispatchQue, closeClientTag, closed, m_allSessionMap>>
         /\ Operations' = Operations
  BY DEF WaitExit, Run, RunReturns, PushExitLoop, appVars, Operations
<1>3. \A s \in SessionIDs : SocketInv(m_allSessionMap[s])
  BY DEF ClientInv
<1>4. CASE WaitExit \/ RunReturns
  <2>1. /\ Messages' = Messages /\ loop # "exited"
        /\ m_clientStage' \in {"WAIT_EXIT", "STOP"} /\ m_clientStage \in {"WAIT_EXIT", "STOP"}
    BY <1>1, <1>4 DEF WaitExit, LoopFree, RunReturns, appVars, Messages
  <2>2. CloseOrder(Operations', m_isStop, m_clientStage')
    BY <1>1, <1>2, <2>1 DEF CloseOrder
  <2> QED BY <1>2, <1>3, <2>1, <2>2, QuietStepInv
<1>5. CASE PushExitLoop
  <2> DEFINE msgs == <<ExitLoop>>
  <2>1. /\ Messages \in Seq(NetThreadMsg) /\ msgs \in Seq(NetThreadMsg)
        /\ ExitLoop \in NetThreadMsg
    BY StreamTypes, MessageTypes DEF ClientInv
  <2>2. m_msgQue' = m_msgQue \o msgs /\ Messages' = Append(Messages, ExitLoop)
    <3>1. m_msgQue \in Seq(NetThreadMsg) /\ m_msgDispatchQue \in Seq(NetThreadMsg)
      BY DEF ClientInv, TypeOK
    <3>2. m_msgQue' = Append(m_msgQue, ExitLoop) /\ m_msgDispatchQue' = m_msgDispatchQue
      BY <1>5 DEF PushExitLoop, appVars
    <3> QED BY <2>1, <3>1, <3>2, AppendIsConcat, ConcatAppend DEF Messages
  <2>3. Messages' = Messages \o msgs
    BY <2>1, <2>2, AppendIsConcat
  <2>4. /\ loop = "returned" /\ loop' = "exited" /\ m_clientStage' = m_clientStage
    BY <1>5 DEF PushExitLoop
  <2>5. ASSUME NEW s \in SessionIDs
        PROVE  SessionInv(s, Messages', Operations', m_allSessionMap'[s])
    <3>1. \A i \in DOMAIN msgs : msgs[i].sessionID # s
      BY SessionAssumption DEF ExitLoop
    <3>2. SessionInv(s, Messages, Operations, m_allSessionMap[s])
      BY DEF ClientInv
    <3> HIDE DEF msgs
    <3>3. Says(s, m_allSessionMap[s], msgs, m_allSessionMap[s])
      BY <3>1, SaysNothing
    <3> QED BY <1>2, <2>1, <2>3, <3>2, <3>3, SayInv
  <2>6. StageInv'
    BY <1>1, <1>2, <2>4 DEF ClientInv, StageInv, InMap
  <2>7. ExitInv'
    <3>1. /\ \A i \in DOMAIN Messages : Messages[i].type # "EXIT_LOOP"
          /\ ~closeClientTag /\ ~closed
      BY <2>4, BeforeExit DEF ClientInv
    <3>2. /\ Len(Messages) \in Nat /\ DOMAIN Messages = 1 .. Len(Messages)
          /\ Len(Messages') = Len(Messages) + 1 /\ DOMAIN Messages' = 1 .. Len(Messages) + 1
          /\ \A i \in DOMAIN Messages : Messages'[i] = Messages[i]
      BY <2>1, <2>2, AppendProperties, LenProperties
    <3>3. \A i \in DOMAIN Messages' : Messages'[i].type = "EXIT_LOOP" => i = Len(Messages')
      BY <3>1, <3>2
    <3> QED BY <1>2, <2>4, <3>1, <3>3 DEF ExitInv
  <2> QED BY <1>2, <1>3, <2>5, <2>6, <2>7 DEF ClientInv
<1> QED BY <1>4, <1>5 DEF Run

-----------------------------------------------------------------------------
(* The invariant, from beginning to end.                                   *)

LEMMA InitInv == Init => ClientInv
<1> SUFFICES ASSUME Init PROVE ClientInv
  OBVIOUS
<1>1. TypeOK
  BY InitType
<1>2. Messages = <<>> /\ Operations = <<>>
  BY EmptySeq, ConcatEmptySeq DEF Init, Messages, Operations
<1>3. DOMAIN Messages = {} /\ DOMAIN Operations = {}
  BY <1>2
<1>4. \A s \in SessionIDs : m_allSessionMap[s] = NoEntry(0)
  BY DEF Init
<1>5. \A s \in SessionIDs : SocketInv(m_allSessionMap[s])
                               /\ SessionInv(s, Messages, Operations, m_allSessionMap[s])
  BY <1>3, <1>4 DEF SocketInv, SessionInv, NoEntry
<1>6. StageInv
  BY <1>3 DEF Init, StageInv, CloseOrder
<1>7. ExitInv
  BY <1>3 DEF Init, ExitInv
<1> QED BY <1>1, <1>5, <1>6, <1>7 DEF ClientInv

LEMMA UnchangedInv ==
    ASSUME ClientInv, TypeOK', UNCHANGED vars
    PROVE  ClientInv'
<1>1. Messages' = Messages /\ Operations' = Operations
  BY DEF vars, appVars, loopVars, Messages, Operations
<1>2. UNCHANGED <<m_isStop, app, m_msgDispatchQue, closeClientTag, closed, loop, m_clientStage,
                  m_allSessionMap>>
  BY DEF vars, appVars, loopVars
<1>3. StageInv' /\ ExitInv'
  BY <1>1, <1>2 DEF ClientInv, StageInv, ExitInv, InMap
<1> QED BY <1>1, <1>2, <1>3 DEF ClientInv

LEMMA InvStep == ClientInv /\ [Next]_vars => ClientInv'
<1> SUFFICES ASSUME ClientInv, [Next]_vars PROVE ClientInv'
  OBVIOUS
<1>1. TypeOK'
  BY TypeStep DEF ClientInv
<1>2. ApiCall => ClientInv'
  BY <1>1, ApiCallInv
<1>3. UpdateFrame \/ DeleteReturns => ClientInv'
  BY <1>1, BatchInv, DispatchInv, ClientCloseCallInv, DeleteReturnsInv DEF UpdateFrame
<1>4. ExecuteOperation => ClientInv'
  BY <1>1, BatchInv, ExecuteSendDataInv, ExecuteDisconnectOpInv, CreateNewConnectInv,
     ExecuteSetAutoConnectInv, ExecuteClientCloseInv, ExecuteRemoveSessionInv,
     ExecuteDeleteSessionInv DEF ExecuteOperation
<1>5. OnClientUpdate \/ Run => ClientInv'
  BY <1>1, ReconnectInv, ClearSessionsInv, ExitInvStep DEF OnClientUpdate
<1>6. Peer => ClientInv'
  BY <1>1, OfflineInv, OnSessionRecvDataInv, OnIllegalHeartInv DEF Peer
<1>7. ASSUME NEW s \in SessionIDs
      PROVE  /\ (\E outcome \in Outcomes : KernelConnect(s, outcome)) => ClientInv'
             /\ (\E readStarted \in BOOLEAN : OnSocketConnect(s, readStarted)) => ClientInv'
             /\ OnSessionClose(s) => ClientInv'
  BY <1>1, KernelConnectInv, OnSocketConnectInv, OnSessionCloseInv
<1>8. UNCHANGED vars => ClientInv'
  BY <1>1, UnchangedInv
<1> QED BY <1>2, <1>3, <1>4, <1>5, <1>6, <1>7, <1>8 DEF Next, Finished

(* Everything that follows is read off this invariant. *)
THEOREM Safety == Spec => []ClientInv
  BY InitInv, InvStep, PTL DEF Spec

(* The session of every queued message is alive, and the one it was sent   *)
(* for: the pointer that updateFrame() hands out does not dangle.          *)
THEOREM MessagesDoNotDangle == Spec => []NoDanglingMessage
<1>1. ClientInv => NoDanglingMessage
  <2> SUFFICES ASSUME ClientInv, NEW i \in DOMAIN Messages, Messages[i].sessionID # NoSession
               PROVE  /\ InMap(Messages[i].sessionID)
                      /\ Messages[i].incarnation =
                            m_allSessionMap[Messages[i].sessionID].incarnation
    BY DEF NoDanglingMessage
  <2>1. Messages[i] \in NetThreadMsg
    <3>1. Messages \in Seq(NetThreadMsg)
      BY StreamTypes DEF ClientInv
    <3> QED BY <3>1, LenProperties, ElementOfSeq
  <2>2. Messages[i].sessionID \in SessionIDs
    BY <2>1 DEF NetThreadMsg
  <2> QED BY <2>2 DEF ClientInv, SessionInv, InMap
<1> QED BY <1>1, Safety, PTL

(* A session is announced as removed once, after all else that is said of  *)
(* it.                                                                     *)
THEOREM RemovalIsFinal == Spec => []RemovedOnceAndLast
<1>1. ClientInv => RemovedOnceAndLast
  <2> SUFFICES ASSUME ClientInv, NEW s \in SessionIDs
               PROVE  /\ Cardinality(Removals(s)) + Cardinality(Deletions(s)) <= 1
                      /\ \A i \in Removals(s) : \A j \in MsgsOf(s) : j <= i
                      /\ Deletions(s) # {} => MsgsOf(s) = {}
    BY DEF RemovedOnceAndLast
  <2>1. SessionInv(s, Messages, Operations, m_allSessionMap[s])
    BY DEF ClientInv
  <2>2. \A i \in Removals(s) : i \in DOMAIN Messages /\ IsRemoval(Messages[i], s)
    BY DEF Removals, MsgsOf, IsRemoval
  <2>3. \A i \in Deletions(s) : i \in DOMAIN Operations /\ IsDeletion(Operations[i], s)
    BY DEF Deletions, IsDeletion
  <2>4. \A i \in Removals(s) : \A j \in MsgsOf(s) : j <= i
    BY <2>1, <2>2 DEF SessionInv, MsgsOf
  <2>5. Deletions(s) # {} => MsgsOf(s) = {}
    BY <2>1, <2>3 DEF SessionInv, MsgsOf
  <2>6. \A i, j \in Removals(s) : i = j
    <3>1. \A i \in Removals(s) : i \in MsgsOf(s)
      BY DEF Removals
    <3>2. \A i \in Removals(s) : i \in Nat
      <4>1. Messages \in Seq(NetThreadMsg)
        BY StreamTypes DEF ClientInv
      <4> QED BY <2>2, <4>1, LenProperties
    <3> QED BY <2>4, <3>1, <3>2
  <2>7. \A i, j \in Deletions(s) : i = j
    BY <2>1, <2>3 DEF SessionInv
  <2>8. Removals(s) = {} \/ Deletions(s) = {}
    BY <2>5 DEF Removals
  <2>9. /\ Cardinality(Removals(s)) \in {0, 1} /\ Cardinality(Deletions(s)) \in {0, 1}
        /\ Cardinality(Removals(s)) = 0 \/ Cardinality(Deletions(s)) = 0
    BY <2>6, <2>7, <2>8, AtMostOne
  <2>10. Cardinality(Removals(s)) + Cardinality(Deletions(s)) <= 1
    BY <2>9
  <2> QED BY <2>4, <2>5, <2>10
<1> QED BY <1>1, Safety, PTL

(* When the loop is left there is no session, and none is to come.         *)
THEOREM SweepIsFinal == Spec => []NothingAfterSweep
<1>1. ClientInv => NothingAfterSweep
  BY DEF ClientInv, StageInv, CloseOrder, NothingAfterSweep
<1> QED BY <1>1, Safety, PTL

(* m_clientCloseCall is the last callback the application gets.            *)
THEOREM ExitIsLast == Spec => []ExitLoopLast
<1>1. ClientInv => ExitLoopLast
  BY DEF ClientInv, ExitInv, ExitLoopLast
<1> QED BY <1>1, Safety, PTL

-----------------------------------------------------------------------------
(* Freeing.                                                                *)

(* Only two steps take a session out of the map. *)
LEMMA SessionsStay ==
    ASSUME ClientInv, [Next]_vars, NEW s \in SessionIDs, InMap(s), ~InMap(s)'
    PROVE  ExecuteDeleteSession \/ DeleteReturns
<1> SUFFICES ASSUME ~ExecuteDeleteSession, ~DeleteReturns PROVE FALSE
  OBVIOUS
<1>1. \A t \in SessionIDs : m_allSessionMap[t] \in clientSessionData
  BY DEF ClientInv, TypeOK
<1>2. m_allSessionMap' # m_allSessionMap
  BY DEF InMap
<1>3. CASE ExecuteOperation
  <2>1. ASSUME NEW type, type \notin {"SET_AUTO_CONNECT", "CLIENT_CLOSE"}, Executing(type),
               NEW data, NEW msgs, Executed(data, msgs), Target.inMap => data.inMap
        PROVE  FALSE
    <3>1. curOperation.sessionID \in SessionIDs
      BY <2>1, TargetType DEF ClientInv
    <3> QED BY <2>1, <3>1 DEF Executed, InMap, Target, ClientInv, TypeOK
  <2>2. CASE ExecuteSendData
    <3>1. Target \in clientSessionData
      BY <2>2, TargetType DEF ClientInv, ExecuteSendData
    <3>2. \A wrote \in BOOLEAN : ExecuteSend(Target, wrote).inMap = Target.inMap
      BY <3>1, DisconnectKeeps
    <3>3. PICK data : Executed(data, <<>>) /\ data.inMap = Target.inMap
      BY <2>2, <3>2 DEF ExecuteSendData
    <3>4. Executing("SENDDATA")
      BY <2>2 DEF ExecuteSendData
    <3> QED BY <2>1, <3>3, <3>4
  <2>3. CASE ExecuteDisconnectOp \/ ExecuteRemoveSession
    <3>1. Target \in clientSessionData
      BY <2>3, TargetType DEF ClientInv, ExecuteDisconnectOp, ExecuteRemoveSession
    <3>2. \A d \in {[Target EXCEPT !.connectState = "DISCONNECTING"],
                   [Target EXCEPT !.removeTag = TRUE]} :
             d \in clientSessionData /\ d.inMap = Target.inMap
      BY <3>1 DEF clientSessionData, ConnectState
    <3>3. \A d \in {[Target EXCEPT !.connectState = "DISCONNECTING"],
                   [Target EXCEPT !.removeTag = TRUE]} :
             ExecuteDisconnect(d).inMap = Target.inMap
      BY <3>2, DisconnectKeeps
    <3>4. \E data, msgs : Executed(data, msgs) /\ data.inMap = Target.inMap
      BY <2>3, <3>2, <3>3 DEF ExecuteDisconnectOp, ExecuteRemoveSession
    <3>5. Executing("DISCONNECT") \/ Executing("REMOVE_SESSION")
      BY <2>3 DEF ExecuteDisconnectOp, ExecuteRemoveSession
    <3> QED BY <2>1, <3>4, <3>5
  <2>4. CASE CreateNewConnect
    <3>1. Target \in clientSessionData
      BY <2>4, TargetType DEF ClientInv, CreateNewConnect
    <3>2. Connecting(Target).inMap = Target.inMap /\ ExecuteDisconnect(Target).inMap = Target.inMap
      BY <3>1, DisconnectKeeps DEF Connecting, clientSessionData
    <3>3. \E data, msgs : Executed(data, msgs) /\ (Target.inMap => data.inMap)
      BY <2>4, <3>2 DEF CreateNewConnect, StartConnect
    <3>4. Executing("CONNECT")
      BY <2>4 DEF CreateNewConnect
    <3> QED BY <2>1, <3>3, <3>4
  <2>5. CASE ExecuteSetAutoConnect
    <3>1. \/ m_allSessionMap'[s] = m_allSessionMap[s]
          \/ m_allSessionMap'[s] = [m_allSessionMap[s] EXCEPT !.reconnect = curOperation.isAuto]
      BY <2>5 DEF ExecuteSetAutoConnect
    <3> QED BY <1>1, <3>1 DEF InMap, clientSessionData
  <2>6. CASE TakeOperations \/ ExecuteClientClose
    BY <1>2, <2>6 DEF TakeOperations, ExecuteClientClose
  <2> QED BY <1>3, <2>2, <2>3, <2>4, <2>5, <2>6 DEF ExecuteOperation
<1>4. ASSUME NEW t \in SessionIDs, NEW data, NEW msgs, Callback(t, data, msgs),
             data.inMap = m_allSessionMap[t].inMap
      PROVE  FALSE
  BY <1>4 DEF Callback, InMap, ClientInv, TypeOK
<1>5. ASSUME NEW t \in SessionIDs, Reconnect(t) \/ HeartbeatLost(t) \/ OnSessionRecvData(t)
             \/ OnIllegalData(t) \/ OnEof(t) \/ OnSessionClose(t)
      PROVE  FALSE
  <2> DEFINE d == m_allSessionMap[t]
  <2>1. /\ Connecting(d).inMap = d.inMap /\ ExecuteDisconnect(d).inMap = d.inMap
        /\ SocketDisconnect(d).inMap = d.inMap /\ Closed(d).inMap = d.inMap
    BY <1>1, DisconnectKeeps DEF Connecting, Closed, OnSocketClose, clientSessionData
  <2>2. \E data, msgs : Callback(t, data, msgs) /\ data.inMap = d.inMap
    BY <1>5, <2>1 DEF Reconnect, HeartbeatLost, OnSessionRecvData, OnIllegalData,
       OnEof, OnSessionClose
  <2> QED BY <1>4, <2>2
<1>6. ASSUME NEW t \in SessionIDs, NEW readStarted \in BOOLEAN, OnSocketConnect(t, readStarted)
      PROVE  FALSE
  <2> DEFINE d == m_allSessionMap[t]
             isSuc == (IF d.tcp = "connected" /\ ~readStarted
                       THEN 0 ELSE ConnectStatus(UvStatus(d.tcp))) = 1
             after == [d EXCEPT !.tcp = IF isSuc THEN "open" ELSE "idle", !.isOnline = isSuc,
                                !.connectState = IF isSuc THEN "CONNECT" ELSE "DISCONNECT"]
  <2>1. \E msgs : Callback(t, after, msgs) \/ Callback(t, ExecuteDisconnect(after), msgs)
    BY <1>6 DEF OnSocketConnect
  <2>2. isSuc \in BOOLEAN
    OBVIOUS
  <2> HIDE DEF isSuc
  <2>3. after \in clientSessionData /\ after.inMap = d.inMap
    BY <1>1, <2>2 DEF clientSessionData, ConnectState, TcpHandle
  <2> HIDE DEF after
  <2>4. ExecuteDisconnect(after).inMap = d.inMap
    BY <2>3, DisconnectKeeps
  <2> QED BY <1>4, <2>1, <2>3, <2>4
<1>7. ASSUME NEW t \in SessionIDs, NEW outcome \in Outcomes, KernelConnect(t, outcome)
      PROVE  FALSE
  <2>1. m_allSessionMap' = [m_allSessionMap EXCEPT
                              ![t] = [m_allSessionMap[t] EXCEPT !.tcp = outcome]]
    BY <1>7 DEF KernelConnect
  <2>2. [m_allSessionMap[t] EXCEPT !.tcp = outcome].inMap = m_allSessionMap[t].inMap
    BY <1>1 DEF clientSessionData
  <2> QED BY <2>1, <2>2 DEF InMap, ClientInv, TypeOK
<1>8. CASE ClearSessions
  <2> DEFINE tagged == [m_allSessionMap[s] EXCEPT !.removeTag = TRUE]
  <2>1. tagged \in clientSessionData /\ tagged.inMap = m_allSessionMap[s].inMap
    BY <1>1 DEF clientSessionData
  <2>2. m_allSessionMap'[s] \in {ExecuteDisconnect(tagged), tagged, m_allSessionMap[s]}
    BY <1>8 DEF ClearSessions
  <2> HIDE DEF tagged
  <2> QED BY <2>1, <2>2, DisconnectKeeps DEF InMap
<1>9. ASSUME ApiCall \/ UpdateFrame \/ WaitExit \/ Run \/ UNCHANGED vars
                \/ \E t \in SessionIDs : OnIllegalHeart(t)
      PROVE  FALSE
  <2>1. CASE ApiCall
    BY <1>2, <2>1 DEF ApiCall, Connect, Disconnect, RemoveSession, Send, SetAutoReconnect,
       SetAutoReconnectBySessionID, Call, CloseClient, Delete, loopVars
  <2>2. CASE UpdateFrame
    BY <1>2, <2>2 DEF UpdateFrame, GetThreadMsg, DispatchMsg, ClientCloseCall, loopVars
  <2>3. CASE WaitExit \/ Run \/ \E t \in SessionIDs : OnIllegalHeart(t)
    BY <1>2, <2>3 DEF WaitExit, Run, RunReturns, PushExitLoop, OnIllegalHeart, loopVars
  <2>4. CASE UNCHANGED vars
    BY <1>2, <2>4 DEF vars, loopVars
  <2> QED BY <1>9, <2>1, <2>2, <2>3, <2>4
<1> QED BY <1>3, <1>5, <1>6, <1>7, <1>8, <1>9 DEF Next, OnClientUpdate, Peer, Finished

(* ... and the first of them the session that the operation names. *)
LEMMA DeletedIsHead ==
    ASSUME ClientInv, ExecuteDeleteSession, NEW s \in SessionIDs, InMap(s), ~InMap(s)'
    PROVE  1 \in DOMAIN Operations /\ IsDeletion(Operations[1], s)
<1>1. curOperation.sessionID \in SessionIDs
  BY TargetType DEF ExecuteDeleteSession, ClientInv
<1>2. s = curOperation.sessionID
  BY <1>1 DEF ExecuteDeleteSession, Executed, InMap, ClientInv, TypeOK
<1>3. /\ Operations \in Seq(SessionOperation)
      /\ Operations # <<>> /\ Head(Operations) = curOperation
  BY StreamTypes, ExecutingStream DEF ExecuteDeleteSession, ClientInv
<1> QED BY <1>2, <1>3, LenProperties, EmptySeq DEF ExecuteDeleteSession, Executing, IsDeletion

(* A session is freed only when libuv has nothing of its socket under way. *)
THEOREM FreedSessionIsQuiet == Spec => FreedWhenQuiet
<1>1. ASSUME ClientInv, [Next]_vars
      PROVE  [\A s \in SessionIDs :
                InMap(s) /\ ~InMap(s)' =>
                   ~m_allSessionMap[s].closing /\ m_allSessionMap[s].tcp \in {"null", "idle"}]_vars
  <2> SUFFICES ASSUME NEW s \in SessionIDs, InMap(s), ~InMap(s)'
               PROVE  ~m_allSessionMap[s].closing /\ m_allSessionMap[s].tcp \in {"null", "idle"}
    OBVIOUS
  <2>1. CASE DeleteReturns
    BY <1>1, <2>1 DEF DeleteReturns, ClientInv, StageInv
  <2>2. CASE ExecuteDeleteSession
    <3>1. 1 \in DOMAIN Operations /\ IsDeletion(Operations[1], s)
      BY <1>1, <2>2, DeletedIsHead
    <3>2. Leaving(m_allSessionMap[s])
      BY <1>1, <3>1 DEF ClientInv, SessionInv
    <3> QED BY <1>1, <3>2 DEF Leaving, ClientInv, SocketInv
  <2> QED BY <1>1, <2>1, <2>2, SessionsStay
<1> QED BY <1>1, Safety, PTL DEF Spec, FreedWhenQuiet

-----------------------------------------------------------------------------
(* Deleting.                                                               *)

(* Without the application polling no deletion is queued. *)
LEMMA JoiningStep ==
    ASSUME ClientInv, [Next]_vars, app = "joining", ~DeleteReturns
    PROVE  /\ app' = "joining"
           /\ \/ Operations' = Operations
              \/ Operations # <<>> /\ Operations' = Tail(Operations)
              \/ \E s \in SessionIDs : Operations' = Append(Operations, Op("DISCONNECT", s))
<1>1. m_operationDispatchQue \in Seq(SessionOperation) /\ m_operationQue \in Seq(SessionOperation)
  BY DEF ClientInv, TypeOK
<1>2. ~ApiCall /\ ~UpdateFrame
  BY DEF ApiCall, Connect, Disconnect, RemoveSession, Send, SetAutoReconnect,
     SetAutoReconnectBySessionID, Call, CloseClient, Delete, UpdateFrame, GetThreadMsg,
     DispatchMsg, ClientCloseCall
<1>3. CASE UNCHANGED <<app, m_operationQue, m_operationDispatchQue>>
  BY <1>3 DEF Operations
<1>4. CASE TakeOperations
  <2>1. Operations = m_operationQue /\ Operations' = m_operationQue
    BY <1>1, <1>4, ConcatEmptySeq DEF TakeOperations, LoopFree, Operations
  <2> QED BY <1>4, <2>1 DEF TakeOperations, appVars
<1>5. ASSUME NEW type, Executing(type)
      PROVE  app' = "joining" /\ Operations # <<>> /\ Operations' = Tail(Operations)
  BY <1>5, ExecutingStream DEF ClientInv, Executing, appVars
<1>6. ASSUME NEW s \in SessionIDs, OnIllegalHeart(s)
      PROVE  app' = "joining" /\ Operations' = Append(Operations, Op("DISCONNECT", s))
  <2>1. Op("DISCONNECT", s) \in SessionOperation
    BY OperationTypes DEF OperationType
  <2>2. /\ m_operationQue' = Append(m_operationQue, Op("DISCONNECT", s))
        /\ UNCHANGED <<app, m_operationDispatchQue>>
    BY <1>6 DEF OnIllegalHeart, PushOperation, appVars, loopVars
  <2> QED BY <1>1, <2>1, <2>2, ConcatAppend DEF Operations
<1>7. ASSUME ExecuteOperation, ~TakeOperations PROVE \E type : Executing(type)
  BY <1>7 DEF ExecuteOperation, ExecuteSendData, ExecuteDisconnectOp, CreateNewConnect,
     ExecuteSetAutoConnect, ExecuteClientClose, ExecuteRemoveSession, ExecuteDeleteSession
<1>8. ASSUME NEW t \in SessionIDs,
             \/ Reconnect(t) \/ HeartbeatLost(t) \/ OnSessionRecvData(t) \/ OnIllegalData(t)
             \/ OnEof(t) \/ OnSessionClose(t)
             \/ \E readStarted \in BOOLEAN : OnSocketConnect(t, readStarted)
             \/ \E outcome \in Outcomes : KernelConnect(t, outcome)
      PROVE  UNCHANGED <<app, m_operationQue, m_operationDispatchQue>>
  BY <1>8 DEF Reconnect, HeartbeatLost, OnSessionRecvData, OnIllegalData, OnEof, OnSessionClose,
     OnSocketConnect, KernelConnect, Callback, appVars
<1>9. ASSUME ClearSessions \/ WaitExit \/ Run \/ UNCHANGED vars
      PROVE  UNCHANGED <<app, m_operationQue, m_operationDispatchQue>>
  BY <1>9 DEF ClearSessions, WaitExit, Run, RunReturns, PushExitLoop, vars, appVars, loopVars
<1> QED BY <1>2, <1>3, <1>4, <1>5, <1>6, <1>7, <1>8, <1>9
        DEF Next, OnClientUpdate, Peer, Finished

(* While ~TCPClient joins and a session needs the application to poll,     *)
(* every step leaves both as they are: the threads wait for each other.    *)
THEOREM JoinDeadlocks == Spec => DeleteDeadlocks
<1>1. ASSUME ClientInv, [Next]_vars, app = "joining", NEW s \in SessionIDs, NeedsPolling(s)
      PROVE  app' = "joining" /\ NeedsPolling(s)'
  <2>1. InMap(s) /\ Deletions(s) = {}
    BY <1>1 DEF NeedsPolling
  <2>2. Operations \in Seq(SessionOperation)
    BY <1>1, StreamTypes DEF ClientInv
  <2>3. ~DeleteReturns
    BY <1>1, <2>1 DEF DeleteReturns, ClientInv, StageInv
  <2>4. \A i \in DOMAIN Operations : ~IsDeletion(Operations[i], s)
    BY <2>1 DEF Deletions, IsDeletion
  <2>5. InMap(s)'
    <3>1. SUFFICES ASSUME ~InMap(s)' PROVE FALSE
      OBVIOUS
    <3>2. ExecuteDeleteSession
      BY <1>1, <2>1, <2>3, <3>1, SessionsStay
    <3>3. IsDeletion(Operations[1], s) /\ 1 \in DOMAIN Operations
      BY <1>1, <2>1, <3>1, <3>2, DeletedIsHead
    <3> QED BY <2>4, <3>3
  <2>6. Deletions(s)' = {}
    <3>1. CASE Operations' = Operations
      BY <2>1, <3>1 DEF Deletions
    <3>2. CASE Operations # <<>> /\ Operations' = Tail(Operations)
      <4>1. \A i \in DOMAIN Tail(Operations) :
               i + 1 \in DOMAIN Operations /\ Tail(Operations)[i] = Operations[i + 1]
        BY <2>2, <3>2, HeadTailProperties, LenProperties
      <4>2. \A i \in DOMAIN Tail(Operations) : ~IsDeletion(Tail(Operations)[i], s)
        BY <2>4, <4>1
      <4> QED BY <3>2, <4>2 DEF Deletions, IsDeletion
    <3>3. ASSUME NEW t \in SessionIDs, Operations' = Append(Operations, Op("DISCONNECT", t))
          PROVE  Deletions(s)' = {}
      <4> DEFINE P == Append(Operations, Op("DISCONNECT", t))
      <4>1. Op("DISCONNECT", t) \in SessionOperation /\ ~IsDeletion(Op("DISCONNECT", t), s)
        BY OperationTypes, NoDeletion DEF OperationType
      <4>2. /\ Len(Operations) \in Nat /\ DOMAIN Operations = 1 .. Len(Operations)
            /\ DOMAIN P = 1 .. Len(Operations) + 1
            /\ \A i \in DOMAIN Operations : P[i] = Operations[i]
            /\ P[Len(Operations) + 1] = Op("DISCONNECT", t)
        BY <2>2, <4>1, AppendProperties, LenProperties
      <4>3. \A i \in DOMAIN P : ~IsDeletion(P[i], s)
        BY <2>4, <4>1, <4>2
      <4> HIDE DEF P
      <4>4. Operations' = P
        BY <3>3 DEF P
      <4> QED BY <4>3, <4>4 DEF Deletions, IsDeletion
    <3> QED BY <1>1, <2>3, <3>1, <3>2, <3>3, JoiningStep
  <2>7. app' = "joining"
    BY <1>1, <2>3, JoiningStep
  <2> QED BY <2>5, <2>6, <2>7 DEF NeedsPolling
<1>2. ASSUME ClientInv, [Next]_vars
      PROVE  [app = "joining" /\ (\E s \in SessionIDs : NeedsPolling(s)) =>
                app' = "joining" /\ \E s \in SessionIDs : NeedsPolling(s)']_vars
  BY <1>1, <1>2
<1> QED BY <1>2, Safety, PTL DEF Spec, DeleteDeadlocks

-----------------------------------------------------------------------------
(* Orphans.                                                                *)

Announced(s) ==
    \/ \E i \in DOMAIN Messages : IsRemoval(Messages[i], s)
    \/ \E i \in DOMAIN Operations : IsDeletion(Operations[i], s)

(* A session that is leaving and of which nothing is queued is an orphan.  *)
LEMMA OrphanIs ==
    ASSUME NEW s
    PROVE  /\ Orphan(s) <=> Leaving(m_allSessionMap[s]) /\ ~Announced(s)
           /\ Orphan(s)' <=> Leaving(m_allSessionMap'[s]) /\ ~Announced(s)'
  BY DEF Orphan, Leaving, Announced, InMap, Removals, Deletions, MsgsOf, IsRemoval, IsDeletion

(* An announced removal stays announced as the streams go on. *)
LEMMA AnnouncedStays ==
    ASSUME TypeOK, NEW s, Announced(s), NEW msgs \in Seq(NetThreadMsg),
           Messages' = Messages \o msgs,
           \/ Operations' = Operations
           \/ \E op \in SessionOperation : Operations' = Append(Operations, op)
           \/ /\ Operations # <<>> /\ Operations' = Tail(Operations)
              /\ ~IsDeletion(Head(Operations), s)
    PROVE  Announced(s)'
<1>1. Messages \in Seq(NetThreadMsg) /\ Operations \in Seq(SessionOperation)
  BY StreamTypes
<1>2. ASSUME NEW i \in DOMAIN Messages, IsRemoval(Messages[i], s) PROVE Announced(s)'
  <2>1. i \in DOMAIN (Messages \o msgs) /\ (Messages \o msgs)[i] = Messages[i]
    BY <1>1, ConcatProperties, LenProperties
  <2> QED BY <1>2, <2>1 DEF Announced
<1>3. ASSUME NEW i \in DOMAIN Operations, IsDeletion(Operations[i], s) PROVE Announced(s)'
  <2>1. CASE Operations' = Operations
    BY <1>3, <2>1 DEF Announced
  <2>2. ASSUME NEW op \in SessionOperation, Operations' = Append(Operations, op)
        PROVE  Announced(s)'
    <3>1. i \in DOMAIN Append(Operations, op) /\ Append(Operations, op)[i] = Operations[i]
      BY <1>1, AppendProperties, LenProperties
    <3> QED BY <1>3, <2>2, <3>1 DEF Announced
  <2>3. CASE /\ Operations # <<>> /\ Operations' = Tail(Operations)
             /\ ~IsDeletion(Head(Operations), s)
    <3>1. i # 1 /\ i \in 1 .. Len(Operations) /\ Len(Operations) \in Nat
      BY <1>1, <1>3, <2>3, LenProperties
    <3>2. /\ DOMAIN Tail(Operations) = 1 .. Len(Operations) - 1
          /\ \A j \in 1 .. Len(Operations) - 1 : Tail(Operations)[j] = Operations[j + 1]
      BY <1>1, <2>3, HeadTailProperties, LenProperties
    <3>3. i - 1 \in DOMAIN Tail(Operations) /\ Tail(Operations)[i - 1] = Operations[i]
      BY <3>1, <3>2
    <3> QED BY <1>3, <2>3, <3>3 DEF Announced
  <2> QED BY <2>1, <2>2, <2>3
<1> QED BY <1>2, <1>3 DEF Announced

(* A step orphans nobody if a session that starts to leave is announced.   *)
LEMMA NoNewOrphan ==
    ASSUME TypeOK, NEW s \in SessionIDs, Orphan(s)', NEW msgs \in Seq(NetThreadMsg),
           Messages' = Messages \o msgs,
           \/ Operations' = Operations
           \/ \E op \in SessionOperation : Operations' = Append(Operations, op)
           \/ /\ Operations # <<>> /\ Operations' = Tail(Operations)
              /\ ~IsDeletion(Head(Operations), s),
           Leaving(m_allSessionMap'[s]) =>
              Leaving(m_allSessionMap[s]) \/ \E i \in DOMAIN msgs : IsRemoval(msgs[i], s)
    PROVE  Orphan(s)
<1>1. Leaving(m_allSessionMap'[s]) /\ ~Announced(s)'
  BY OrphanIs
<1>2. ~Announced(s)
  BY <1>1, AnnouncedStays
<1>3. ASSUME NEW i \in DOMAIN msgs, IsRemoval(msgs[i], s) PROVE FALSE
  <2>1. Messages \in Seq(NetThreadMsg)
    BY StreamTypes
  <2>2. /\ Len(Messages) + i \in DOMAIN (Messages \o msgs)
        /\ (Messages \o msgs)[Len(Messages) + i] = msgs[i]
    BY <2>1, ConcatProperties, LenProperties
  <2> QED BY <1>1, <1>3, <2>2 DEF Announced
<1> QED BY <1>1, <1>2, <1>3, OrphanIs

(* ... nor one that says nothing and leaves the entry as it was, or down   *)
LEMMA NoNewOrphanSilent ==
    ASSUME TypeOK, NEW s \in SessionIDs, Orphan(s)', Messages' = Messages,
           \/ Operations' = Operations
           \/ \E op \in SessionOperation : Operations' = Append(Operations, op)
           \/ /\ Operations # <<>> /\ Operations' = Tail(Operations)
              /\ ~IsDeletion(Head(Operations), s),
           Leaving(m_allSessionMap'[s]) => Leaving(m_allSessionMap[s])
    PROVE  Orphan(s)
<1> DEFINE msgs == <<>>
<1>1. msgs \in Seq(NetThreadMsg)
  BY EmptyMessages
<1>2. Messages' = Messages \o msgs
  BY StreamTypes, ConcatEmptySeq
<1> HIDE DEF msgs
<1> QED BY <1>1, <1>2, NoNewOrphan

(* Operations and callbacks *)
LEMMA ExecutedOrphan ==
    ASSUME ClientInv, NEW type, type \notin {"SET_AUTO_CONNECT", "CLIENT_CLOSE"},
           Executing(type), NEW data, NEW msgs \in Seq(NetThreadMsg), Executed(data, msgs),
           type = "DELETE_SESSION" => ~Leaving(data),
           Leaving(data) => Leaving(Target)
              \/ \E i \in DOMAIN msgs : IsRemoval(msgs[i], curOperation.sessionID),
           NEW s \in SessionIDs, Orphan(s)'
    PROVE  Orphan(s)
<1>1. curOperation.sessionID \in SessionIDs
  BY TargetType DEF ClientInv
<1>2. /\ m_allSessionMap'[curOperation.sessionID] = data
      /\ s # curOperation.sessionID => m_allSessionMap'[s] = m_allSessionMap[s]
  BY <1>1 DEF Executed, ClientInv, TypeOK
<1>3. Messages' = Messages \o msgs
  BY SayMessages DEF Executed, Executing, appVars, ClientInv
<1>4. Operations # <<>> /\ Head(Operations) = curOperation /\ Operations' = Tail(Operations)
  BY ExecutingStream DEF ClientInv
<1>5. Leaving(m_allSessionMap'[s])
  BY OrphanIs
<1>6. ~IsDeletion(curOperation, s)
  BY <1>2, <1>5 DEF IsDeletion, Executing
<1>7. Leaving(m_allSessionMap[s]) \/ \E i \in DOMAIN msgs : IsRemoval(msgs[i], s)
  BY <1>2, <1>5 DEF Target
<1> QED BY <1>3, <1>4, <1>6, <1>7, NoNewOrphan DEF ClientInv

(* The same of a callback that is about one session                        *)
LEMMA CallbackOrphan ==
    ASSUME ClientInv, NEW t \in SessionIDs, NEW data, NEW msgs \in Seq(NetThreadMsg),
           Callback(t, data, msgs), NEW s \in SessionIDs, Orphan(s)',
           s = t /\ Leaving(data) => Leaving(m_allSessionMap[t])
              \/ \E i \in DOMAIN msgs : IsRemoval(msgs[i], t)
    PROVE  Orphan(s)
<1>1. /\ m_allSessionMap'[t] = data
      /\ s # t => m_allSessionMap'[s] = m_allSessionMap[s]
  BY DEF Callback, ClientInv, TypeOK
<1>2. Messages' = Messages \o msgs /\ Operations' = Operations
  BY SayMessages DEF Callback, appVars, ClientInv, Operations
<1>3. Leaving(m_allSessionMap'[s])
  BY OrphanIs
<1>4. Leaving(m_allSessionMap[s]) \/ \E i \in DOMAIN msgs : IsRemoval(msgs[i], s)
  BY <1>1, <1>3
<1> QED BY <1>2, <1>4, NoNewOrphan DEF ClientInv

(* ... of a step that changes no entry and takes no operation              *)
LEMMA UntouchedOrphan ==
    ASSUME ClientInv, NEW s \in SessionIDs, Orphan(s)', UNCHANGED m_allSessionMap,
           Messages' = Messages,
           \/ Operations' = Operations
           \/ \E op \in SessionOperation : Operations' = Append(Operations, op)
    PROVE  Orphan(s)
  BY NoNewOrphanSilent DEF ClientInv

(* ... of an operation that says nothing                                   *)
LEMMA ExecutedOrphanSilent ==
    ASSUME ClientInv, NEW type, type \notin {"SET_AUTO_CONNECT", "CLIENT_CLOSE"},
           Executing(type), NEW data, Executed(data, <<>>),
           type = "DELETE_SESSION" => ~Leaving(data), Leaving(data) => Leaving(Target),
           NEW s \in SessionIDs, Orphan(s)'
    PROVE  Orphan(s)
<1> DEFINE msgs == <<>>
<1>1. msgs \in Seq(NetThreadMsg) /\ Executed(data, msgs)
  BY EmptyMessages
<1> HIDE DEF msgs
<1> QED BY <1>1, ExecutedOrphan

(* ... of a callback that says nothing                                     *)
LEMMA CallbackOrphanSilent ==
    ASSUME ClientInv, NEW t \in SessionIDs, NEW data, Callback(t, data, <<>>),
           NEW s \in SessionIDs, Orphan(s)',
           s = t /\ Leaving(data) => Leaving(m_allSessionMap[t])
    PROVE  Orphan(s)
<1> DEFINE msgs == <<>>
<1>1. msgs \in Seq(NetThreadMsg) /\ Callback(t, data, msgs)
  BY EmptyMessages
<1> HIDE DEF msgs
<1> QED BY <1>1, CallbackOrphan

(* What is appended to the queue is appended to the stream.                *)
LEMMA PushedOperations ==
    ASSUME TypeOK, UNCHANGED m_operationDispatchQue,
           \/ m_operationQue' = m_operationQue
           \/ \E op \in SessionOperation : m_operationQue' = Append(m_operationQue, op)
    PROVE  \/ Operations' = Operations
           \/ \E op \in SessionOperation : Operations' = Append(Operations, op)
<1>1. CASE m_operationQue' = m_operationQue
  BY <1>1 DEF Operations
<1>2. ASSUME NEW op \in SessionOperation, m_operationQue' = Append(m_operationQue, op)
      PROVE  Operations' = Append(Operations, op)
  BY <1>2, ConcatAppend DEF Operations, TypeOK
<1> QED BY <1>1, <1>2

(* The application's steps orphan no session.                              *)
LEMMA ApplicationOrphan ==
    ASSUME ClientInv, [Next]_vars, ApiCall \/ UpdateFrame \/ DeleteReturns,
           NEW s \in SessionIDs, Orphan(s)'
    PROVE  Orphan(s)
<1>1. /\ m_operationDispatchQue \in Seq(SessionOperation)
      /\ m_operationQue \in Seq(SessionOperation)
      /\ Messages \in Seq(NetThreadMsg) /\ Operations \in Seq(SessionOperation)
  BY StreamTypes DEF ClientInv, TypeOK
<1>2. CASE ApiCall
  <2>1. UNCHANGED <<m_allSessionMap, m_msgDispatchQue, m_msgQue, m_operationDispatchQue>>
    BY <1>2 DEF ApiCall, Connect, Disconnect, RemoveSession, Send, SetAutoReconnect,
       SetAutoReconnectBySessionID, Call, CloseClient, Delete, loopVars
  <2>2. \/ m_operationQue' = m_operationQue
        \/ \E op \in SessionOperation : m_operationQue' = Append(m_operationQue, op)
    BY <1>2, OperationTypes
       DEF ApiCall, Connect, Disconnect, RemoveSession, Send, SetAutoReconnect, OperationType,
       SetAutoReconnectBySessionID, Call, CloseClient, Delete, PushOperation
  <2>3. \/ Operations' = Operations
        \/ \E op \in SessionOperation : Operations' = Append(Operations, op)
    BY <2>1, <2>2, PushedOperations DEF ClientInv
  <2>4. Messages' = Messages
    BY <2>1 DEF Messages
  <2> QED BY <2>1, <2>3, <2>4, UntouchedOrphan
<1>3. CASE GetThreadMsg
  <2>1. Messages = m_msgQue /\ Messages' = m_msgQue
    BY <1>3, ConcatEmptySeq DEF GetThreadMsg, Messages, ClientInv, TypeOK
  <2>2. Operations' = Operations /\ m_allSessionMap' = m_allSessionMap
    BY <1>3 DEF GetThreadMsg, Operations, loopVars
  <2> QED BY <2>1, <2>2, UntouchedOrphan
<1>4. CASE ClientCloseCall
  <2>1. Messages' = Messages /\ Operations' = Operations /\ m_allSessionMap' = m_allSessionMap
    BY <1>4 DEF ClientCloseCall, Messages, Operations, loopVars
  <2> QED BY <2>1, UntouchedOrphan
<1>5. CASE DispatchMsg
  <2>1. SUFFICES ASSUME Announced(s) PROVE Announced(s)'
    BY <1>5, OrphanIs DEF DispatchMsg, loopVars
  <2>2. /\ Messages # <<>> /\ Head(Messages) = Head(m_msgDispatchQue)
        /\ Messages' = Tail(Messages)
    BY <1>5, HeadTailConcat DEF DispatchMsg, Messages, ClientInv, TypeOK
  <2>3. CASE ~IsRemoval(Head(Messages), s) /\ \E i \in DOMAIN Messages : IsRemoval(Messages[i], s)
    <3>1. PICK i \in DOMAIN Messages : IsRemoval(Messages[i], s)
      BY <2>3
    <3>2. i # 1 /\ i \in 1 .. Len(Messages) /\ Len(Messages) \in Nat
      BY <1>1, <2>2, <2>3, <3>1, LenProperties
    <3>3. /\ DOMAIN Tail(Messages) = 1 .. Len(Messages) - 1
          /\ \A j \in 1 .. Len(Messages) - 1 : Tail(Messages)[j] = Messages[j + 1]
      BY <1>1, <2>2, HeadTailProperties, LenProperties
    <3>4. i - 1 \in DOMAIN Tail(Messages) /\ Tail(Messages)[i - 1] = Messages[i]
      BY <3>2, <3>3
    <3> QED BY <2>2, <3>1, <3>4 DEF Announced
  <2>4. CASE IsRemoval(Head(Messages), s)
    <3>1. Op("DELETE_SESSION", s) \in SessionOperation
      BY OperationTypes DEF OperationType
    <3>2. Operations' = Append(Operations, Op("DELETE_SESSION", s))
      <4>1. /\ m_operationQue' = Append(m_operationQue, Op("DELETE_SESSION", s))
            /\ m_operationDispatchQue' = m_operationDispatchQue
        BY <1>5, <2>2, <2>4 DEF DispatchMsg, IsRemoval, PushOperation, loopVars
      <4> QED BY <1>1, <3>1, <4>1, ConcatAppend DEF Operations
    <3>3. /\ Len(Operations) + 1 \in DOMAIN Operations'
          /\ Operations'[Len(Operations) + 1] = Op("DELETE_SESSION", s)
      BY <1>1, <3>1, <3>2, AppendProperties, LenProperties
    <3> QED BY <3>3 DEF Announced, IsDeletion, Op
  <2>5. CASE \E i \in DOMAIN Operations : IsDeletion(Operations[i], s)
    <3>1. \/ Operations' = Operations
          \/ \E op \in SessionOperation : Operations' = Append(Operations, op)
      <4>1. m_operationDispatchQue' = m_operationDispatchQue
        BY <1>5 DEF DispatchMsg, loopVars
      <4>2. \/ m_operationQue' = m_operationQue
            \/ \E op \in SessionOperation : m_operationQue' = Append(m_operationQue, op)
        <5>1. Head(Messages) \in NetThreadMsg
          BY <1>1, <2>2, HeadTailProperties
        <5>2. Head(Messages).type = "REMOVE_SESSION" => Head(Messages).sessionID \in SessionIDs
          BY <5>1 DEF NetThreadMsg
        <5>3. Head(Messages).type = "REMOVE_SESSION" =>
                 Op("DELETE_SESSION", Head(Messages).sessionID) \in SessionOperation
          BY <5>2, OperationTypes DEF OperationType
        <5>4. CASE Head(Messages).type = "REMOVE_SESSION"
          <6>1. m_operationQue' =
                   Append(m_operationQue, Op("DELETE_SESSION", Head(Messages).sessionID))
            BY <1>5, <2>2, <5>4 DEF DispatchMsg, PushOperation
          <6> QED BY <5>3, <5>4, <6>1
        <5>5. CASE Head(Messages).type # "REMOVE_SESSION"
          BY <1>5, <2>2, <5>5 DEF DispatchMsg
        <5> QED BY <5>4, <5>5
      <4> QED BY <4>1, <4>2, PushedOperations DEF ClientInv
    <3>2. PICK i \in DOMAIN Operations : IsDeletion(Operations[i], s)
      BY <2>5
    <3>3. \A op \in SessionOperation :
             i \in DOMAIN Append(Operations, op) /\ Append(Operations, op)[i] = Operations[i]
      BY <1>1, AppendProperties, LenProperties
    <3>4. i \in DOMAIN Operations' /\ Operations'[i] = Operations[i]
      BY <3>1, <3>3
    <3> QED BY <3>2, <3>4 DEF Announced
  <2> QED BY <2>1, <2>3, <2>4, <2>5 DEF Announced
<1>6. CASE DeleteReturns
  <2>1. ~Leaving(m_allSessionMap'[s])
    BY <1>6 DEF DeleteReturns, Leaving, NoEntry
  <2> QED BY <2>1, OrphanIs
<1> QED BY <1>2, <1>3, <1>4, <1>5, <1>6 DEF UpdateFrame

(* No operation does.                                                      *)
LEMMA OperationOrphan ==
    ASSUME ClientInv, ExecuteOperation, NEW s \in SessionIDs, Orphan(s)'
    PROVE  Orphan(s)
<1>1. CASE TakeOperations
  <2>1. Operations = m_operationQue /\ Operations' = m_operationQue
    BY <1>1, ConcatEmptySeq DEF TakeOperations, LoopFree, Operations, ClientInv, TypeOK
  <2>2. Messages' = Messages /\ m_allSessionMap' = m_allSessionMap
    BY <1>1 DEF TakeOperations, Messages, appVars
  <2> QED BY <2>1, <2>2, UntouchedOrphan
<1>2. CASE ExecuteSendData
  <2>1. Target \in clientSessionData /\ Executing("SENDDATA")
    BY <1>2, TargetType DEF ClientInv, ExecuteSendData
  <2>2. \A wrote \in BOOLEAN : Leaving(ExecuteSend(Target, wrote)) => Leaving(Target)
    BY <2>1, DisconnectKeeps DEF Leaving
  <2>3. PICK data : Executed(data, <<>>) /\ (Leaving(data) => Leaving(Target))
    BY <1>2, <2>2 DEF ExecuteSendData
  <2> QED BY <2>1, <2>3, ExecutedOrphanSilent
<1>3. CASE ExecuteDisconnectOp
  <2> DEFINE leaving == [Target EXCEPT !.connectState = "DISCONNECTING"]
  <2>1. Target \in clientSessionData /\ Executing("DISCONNECT")
    BY <1>3, TargetType DEF ClientInv, ExecuteDisconnectOp
  <2>2. leaving \in clientSessionData /\ leaving.connectState = "DISCONNECTING"
    BY <2>1 DEF clientSessionData, ConnectState
  <2>3. ~Leaving(ExecuteDisconnect(leaving))
    BY <2>2, DisconnectKeeps DEF Leaving
  <2>4. PICK data : Executed(data, <<>>) /\ (Leaving(data) => Leaving(Target))
    BY <1>3, <2>3 DEF ExecuteDisconnectOp
  <2> QED BY <2>1, <2>4, ExecutedOrphanSilent
<1>4. CASE CreateNewConnect
  <2>1. Target \in clientSessionData /\ curOperation.sessionID \in SessionIDs
           /\ Executing("CONNECT")
    BY <1>4, TargetType DEF ClientInv, CreateNewConnect
  <2>2. NewSession \in clientSessionData /\ ~NewSession.removeTag
    <3>1. NoEntry(Target.incarnation + 1) \in clientSessionData /\ m_reconnect \in BOOLEAN
      BY <2>1, EntryOperators DEF ClientInv, TypeOK
    <3>2. NewSession.removeTag = NoEntry(Target.incarnation + 1).removeTag
      BY <3>1 DEF NewSession, clientSessionData
    <3> QED BY <3>1, <3>2 DEF NewSession, clientSessionData, NoEntry
  <2>3. ASSUME NEW data \in clientSessionData, ~data.removeTag, NEW started \in BOOLEAN,
               StartConnect(data, started)
        PROVE  Orphan(s)
    <3>1. ~Leaving(Connecting(data)) /\ ~Leaving(ExecuteDisconnect(data))
      BY <2>3, DisconnectKeeps DEF Leaving, Connecting, clientSessionData
    <3>2. TargetMsg("CONNECT_FAIL", data) \in Seq(NetThreadMsg)
      BY <2>1, OneMessage DEF TargetMsg, NetThreadMsgType
    <3>3. CASE Executed(Connecting(data), <<>>)
      BY <2>1, <3>1, <3>3, ExecutedOrphanSilent
    <3>4. CASE Executed(ExecuteDisconnect(data), TargetMsg("CONNECT_FAIL", data))
      BY <2>1, <3>1, <3>2, <3>4, ExecutedOrphan
    <3> QED BY <2>3, <3>3, <3>4 DEF StartConnect
  <2>4. CASE Executed(Target, <<>>)
    BY <2>1, <2>4, ExecutedOrphanSilent
  <2> QED BY <1>4, <2>1, <2>2, <2>3, <2>4 DEF CreateNewConnect, AnnounceNow
<1>5. CASE ExecuteSetAutoConnect \/ ExecuteClientClose
  <2>1. /\ Operations # <<>> /\ Operations' = Tail(Operations)
        /\ ~IsDeletion(Head(Operations), s)
    BY <1>5, ExecutingStream
       DEF ClientInv, ExecuteSetAutoConnect, ExecuteClientClose, Executing, IsDeletion
  <2>2. Messages' = Messages
    BY <1>5 DEF ExecuteSetAutoConnect, ExecuteClientClose, Executing, appVars, Messages
  <2>3. \/ m_allSessionMap'[s] = m_allSessionMap[s]
        \/ m_allSessionMap'[s] = [m_allSessionMap[s] EXCEPT !.reconnect = curOperation.isAuto]
    BY <1>5 DEF ExecuteSetAutoConnect, ExecuteClientClose
  <2>4. m_allSessionMap[s] \in clientSessionData
    BY DEF ClientInv, TypeOK
  <2>5. Leaving(m_allSessionMap'[s]) => Leaving(m_allSessionMap[s])
    BY <2>3, <2>4 DEF Leaving, clientSessionData
  <2> QED BY <2>1, <2>2, <2>5, NoNewOrphanSilent DEF ClientInv
<1>6. CASE ExecuteRemoveSession
  <2> DEFINE tagged == [Target EXCEPT !.removeTag = TRUE]
             msgs   == TargetMsg("REMOVE_SESSION", Target)
  <2>1. Target \in clientSessionData /\ curOperation.sessionID \in SessionIDs
           /\ Executing("REMOVE_SESSION")
    BY <1>6, TargetType DEF ClientInv, ExecuteRemoveSession
  <2>2. CASE Executed(tagged, msgs)
    <3>1. msgs \in Seq(NetThreadMsg)
      BY <2>1, OneMessage DEF TargetMsg, NetThreadMsgType
    <3>2. \E i \in DOMAIN msgs : IsRemoval(msgs[i], curOperation.sessionID)
      <4>1. 1 \in DOMAIN msgs /\ msgs[1] = Msg("REMOVE_SESSION", curOperation.sessionID, Target)
        BY DEF TargetMsg
      <4> QED BY <4>1 DEF IsRemoval, Msg
    <3> HIDE DEF msgs, tagged
    <3> QED BY <2>1, <2>2, <3>1, <3>2, ExecutedOrphan
  <2>3. CASE Target.connectState # "DISCONNECT" /\ Executed(ExecuteDisconnect(tagged), <<>>)
    <3>1. tagged \in clientSessionData /\ tagged.connectState # "DISCONNECT"
      BY <2>1, <2>3 DEF clientSessionData
    <3>2. ~Leaving(ExecuteDisconnect(tagged))
      BY <3>1, DisconnectKeeps DEF Leaving
    <3> HIDE DEF tagged
    <3> QED BY <2>1, <2>3, <3>2, ExecutedOrphanSilent
  <2>4. CASE Executed(Target, <<>>)
    BY <2>1, <2>4, ExecutedOrphanSilent
  <2> QED BY <1>6, <2>2, <2>3, <2>4 DEF ExecuteRemoveSession
<1>7. CASE ExecuteDeleteSession
  <2>1. Executing("DELETE_SESSION") /\ Executed(Deleted(Target), <<>>)
    BY <1>7 DEF ExecuteDeleteSession
  <2>2. ~Leaving(Deleted(Target))
    BY DEF Deleted, Leaving, NoEntry
  <2> QED BY <2>1, <2>2, ExecutedOrphanSilent
<1> QED BY <1>1, <1>2, <1>3, <1>4, <1>5, <1>6, <1>7 DEF ExecuteOperation

(* No callback does but that of a connection attempt ...                   *)
LEMMA CallbacksOrphan ==
    ASSUME ClientInv, NEW s \in SessionIDs, Orphan(s)', NEW t \in SessionIDs,
           \/ Reconnect(t) \/ HeartbeatLost(t) \/ OnSessionRecvData(t) \/ OnIllegalData(t)
           \/ OnIllegalHeart(t) \/ OnEof(t) \/ OnSessionClose(t)
           \/ \E outcome \in Outcomes : KernelConnect(t, outcome)
    PROVE  Orphan(s)
<1> DEFINE d == m_allSessionMap[t]
<1>1. d \in clientSessionData
  BY DEF ClientInv, TypeOK
<1>2. CASE Reconnect(t)
  <2>1. ~Leaving(Connecting(d)) /\ Callback(t, Connecting(d), <<>>)
    BY <1>1, <1>2 DEF Reconnect, Connecting, Leaving, clientSessionData
  <2> QED BY <2>1, CallbackOrphanSilent
<1>3. CASE HeartbeatLost(t) \/ OnIllegalData(t) \/ OnEof(t)
  <2>1. PICK data \in {ExecuteDisconnect(d), SocketDisconnect(d)} : Callback(t, data, <<>>)
    BY <1>3 DEF HeartbeatLost, OnIllegalData, OnEof
  <2>2. Leaving(data) => Leaving(d)
    BY <1>1, DisconnectKeeps DEF Leaving
  <2> HIDE DEF d
  <2>3. s = t /\ Leaving(data) => Leaving(m_allSessionMap[t])
    BY <2>2 DEF d
  <2> QED BY <2>1, <2>3, CallbackOrphanSilent
<1>4. CASE OnSessionRecvData(t)
  <2> DEFINE msgs == <<Msg("RECV_DATA", t, d)>>
  <2>1. msgs \in Seq(NetThreadMsg) /\ Callback(t, d, msgs)
    BY <1>1, <1>4, OneMessage DEF NetThreadMsgType, OnSessionRecvData
  <2> HIDE DEF msgs
  <2> QED BY <2>1, CallbackOrphan
<1>5. CASE OnIllegalHeart(t)
  <2>1. Op("DISCONNECT", t) \in SessionOperation
    BY OperationTypes DEF OperationType
  <2>2. /\ m_operationQue' = Append(m_operationQue, Op("DISCONNECT", t))
        /\ UNCHANGED <<m_operationDispatchQue, m_msgDispatchQue, m_msgQue, m_allSessionMap>>
    BY <1>5 DEF OnIllegalHeart, PushOperation, appVars, loopVars
  <2>3. \/ Operations' = Operations
        \/ \E op \in SessionOperation : Operations' = Append(Operations, op)
    BY <2>1, <2>2, PushedOperations DEF ClientInv
  <2>4. Messages' = Messages
    BY <2>2 DEF Messages
  <2> QED BY <2>2, <2>3, <2>4, UntouchedOrphan
<1>6. CASE OnSessionClose(t)
  <2> DEFINE msgs == CloseMsgs(t, d)
  <2>1. msgs \in Seq(NetThreadMsg) /\ Callback(t, Closed(d), msgs)
    BY <1>1, <1>6, CloseMessages DEF OnSessionClose
  <2>2. Leaving(Closed(d)) => \E i \in DOMAIN msgs : IsRemoval(msgs[i], t)
    <3> SUFFICES ASSUME Leaving(Closed(d)) PROVE \E i \in DOMAIN msgs : IsRemoval(msgs[i], t)
      OBVIOUS
    <3>1. d.removeTag
      BY <1>1 DEF Leaving, Closed, OnSocketClose, clientSessionData
    <3> DEFINE u == <<Msg("DIS_CONNECT", t, d)>>
               v == <<Msg("REMOVE_SESSION", t, d)>>
    <3>2. /\ u \in Seq(NetThreadMsg) /\ v \in Seq(NetThreadMsg) /\ Len(u) = 1 /\ Len(v) = 1
          /\ v[1] = Msg("REMOVE_SESSION", t, d)
      BY <1>1, OneMessage DEF NetThreadMsgType
    <3>3. msgs = u \o v
      BY <3>1 DEF CloseMsgs
    <3> HIDE DEF u, v, msgs
    <3>4. /\ msgs \in Seq(NetThreadMsg) /\ Len(msgs) = Len(u) + Len(v)
          /\ \A i \in 1 .. Len(u) + Len(v) :
                msgs[i] = IF i <= Len(u) THEN u[i] ELSE v[i - Len(u)]
      BY <3>2, <3>3, ConcatProperties
    <3>5. Len(msgs) = 2 /\ msgs[2] = v[1]
      BY <3>2, <3>4
    <3>6. 2 \in DOMAIN msgs
      <4>1. DOMAIN msgs = 1 .. Len(msgs)
        BY <3>4, LenProperties
      <4> QED BY <3>5, <4>1
    <3> QED BY <3>2, <3>5, <3>6 DEF IsRemoval, Msg
  <2> HIDE DEF msgs
  <2> QED BY <2>1, <2>2, CallbackOrphan
<1>7. ASSUME NEW outcome \in Outcomes, KernelConnect(t, outcome) PROVE Orphan(s)
  <2>1. Messages' = Messages /\ Operations' = Operations
    BY <1>7 DEF KernelConnect, Messages, Operations, appVars
  <2>2. \/ m_allSessionMap'[s] = m_allSessionMap[s]
        \/ m_allSessionMap'[s] = [m_allSessionMap[s] EXCEPT !.tcp = outcome]
    BY <1>7 DEF KernelConnect, ClientInv, TypeOK
  <2>3. m_allSessionMap[s] \in clientSessionData
    BY DEF ClientInv, TypeOK
  <2>4. Leaving(m_allSessionMap'[s]) => Leaving(m_allSessionMap[s])
    BY <2>2, <2>3 DEF Leaving, clientSessionData
  <2> QED BY <2>1, <2>4, NoNewOrphanSilent DEF ClientInv
<1> QED BY <1>2, <1>3, <1>4, <1>5, <1>6, <1>7

(* The sweep announces every session it marks. *)
LEMMA SweepAnnounces ==
    ASSUME NEW order \in SetToSeqs(ToRemove), NEW s \in ToRemove
    PROVE  \E i \in DOMAIN order : order[i] = s
<1> DEFINE n == Cardinality(ToRemove)
<1>1. IsFiniteSet(ToRemove)
  BY SessionAssumption, FS_Subset DEF ToRemove
<1>2. n \in Nat /\ IsFiniteSet(1 .. n) /\ Cardinality(1 .. n) = n
  BY <1>1, FS_CardinalityType, FS_Interval
<1>3. order \in Injection(1 .. n, ToRemove)
  BY <1>1 DEF SetToSeqs, Injection, IsInjective
<1>4. order \in Surjection(1 .. n, ToRemove)
  BY <1>1, <1>2, <1>3, FS_Injection
<1> QED BY <1>4 DEF Surjection

(* ... and neither the sweep nor the end of the loop does.                 *)
LEMMA LoopEndOrphan ==
    ASSUME ClientInv, NEW s \in SessionIDs, Orphan(s)', ClearSessions \/ WaitExit \/ Run
    PROVE  Orphan(s)
<1>1. CASE ClearSessions
  <2>1. PICK order \in SetToSeqs(ToRemove) :
           m_msgQue' = m_msgQue \o [i \in DOMAIN order |->
                                      Msg("REMOVE_SESSION", order[i], m_allSessionMap[order[i]])]
    BY <1>1 DEF ClearSessions
  <2> DEFINE msgs == [i \in DOMAIN order |->
                        Msg("REMOVE_SESSION", order[i], m_allSessionMap[order[i]])]
             d == m_allSessionMap[s]
             tagged == [d EXCEPT !.removeTag = TRUE]
  <2>2. msgs \in Seq(NetThreadMsg)
    BY SweepMessages DEF ClientInv
  <2>3. s \in ToRemove => \E i \in DOMAIN msgs : IsRemoval(msgs[i], s)
    BY SweepAnnounces DEF IsRemoval, Msg
  <2>4. m_allSessionMap'[s] = IF s \in ToClose THEN ExecuteDisconnect(tagged)
                              ELSE IF s \in ToRemove THEN tagged ELSE d
    BY <1>1 DEF ClearSessions
  <2>5. s \in ToClose => ~Leaving(ExecuteDisconnect(tagged))
    <3>1. d \in clientSessionData
      BY DEF ClientInv, TypeOK
    <3>2. s \in ToClose => tagged \in clientSessionData /\ tagged.connectState = "CONNECT"
      BY <3>1 DEF ToClose, clientSessionData
    <3> HIDE DEF tagged
    <3> QED BY <3>2, DisconnectKeeps DEF Leaving
  <2>6. Leaving(m_allSessionMap'[s]) => Leaving(d) \/ \E i \in DOMAIN msgs : IsRemoval(msgs[i], s)
    BY <2>3, <2>4, <2>5
  <2> HIDE DEF msgs
  <2>7. Messages' = Messages \o msgs /\ Operations' = Operations
    BY <1>1, <2>1, <2>2, SayMessages DEF ClearSessions, appVars, ClientInv, Operations, msgs
  <2> QED BY <2>2, <2>6, <2>7, NoNewOrphan DEF ClientInv
<1>2. CASE WaitExit \/ RunReturns
  <2>1. Messages' = Messages /\ Operations' = Operations /\ m_allSessionMap' = m_allSessionMap
    BY <1>2 DEF WaitExit, RunReturns, Messages, Operations, appVars
  <2> QED BY <2>1, UntouchedOrphan
<1>3. CASE PushExitLoop
  <2> DEFINE msgs == <<ExitLoop>>
  <2>1. msgs \in Seq(NetThreadMsg) /\ ExitLoop \in NetThreadMsg
    BY MessageTypes
  <2>2. m_msgQue' = m_msgQue \o msgs
    BY <1>3, <2>1, AppendIsConcat DEF PushExitLoop, ClientInv, TypeOK
  <2> HIDE DEF msgs
  <2>3. Messages' = Messages \o msgs /\ Operations' = Operations
           /\ m_allSessionMap' = m_allSessionMap
    BY <1>3, <2>1, <2>2, SayMessages DEF PushExitLoop, appVars, ClientInv, Operations
  <2> QED BY <2>1, <2>3, NoNewOrphan DEF ClientInv
<1> QED BY <1>1, <1>2, <1>3 DEF Run

(* A session is orphaned only by an attempt to connect that ends while the *)
(* session is marked for removal.                                          *)
THEOREM OnlyFailedConnectOrphans == Spec => OrphanedByFailedConnect
<1>1. ASSUME ClientInv, [Next]_vars, NEW s \in SessionIDs, ~Orphan(s), Orphan(s)'
      PROVE  /\ m_allSessionMap[s].removeTag
             /\ m_allSessionMap[s].connectState = "CONNECTING"
             /\ m_allSessionMap[s].tcp \in {"connected", "refused", "timedout"}
  <2>1. PICK t \in SessionIDs, readStarted \in BOOLEAN : OnSocketConnect(t, readStarted)
    <3>1. ~(ApiCall \/ UpdateFrame \/ DeleteReturns)
      BY <1>1, ApplicationOrphan
    <3>2. ~ExecuteOperation
      BY <1>1, OperationOrphan
    <3>3. \A t \in SessionIDs :
             ~(\/ Reconnect(t) \/ HeartbeatLost(t) \/ OnSessionRecvData(t) \/ OnIllegalData(t)
               \/ OnIllegalHeart(t) \/ OnEof(t) \/ OnSessionClose(t)
               \/ \E outcome \in Outcomes : KernelConnect(t, outcome))
      BY <1>1, CallbacksOrphan
    <3>4. ~(ClearSessions \/ WaitExit \/ Run)
      BY <1>1, LoopEndOrphan
    <3>5. ~UNCHANGED vars
      <4>1. SUFFICES ASSUME UNCHANGED vars PROVE FALSE
        OBVIOUS
      <4>2. Messages' = Messages /\ Operations' = Operations /\ m_allSessionMap' = m_allSessionMap
        BY <4>1 DEF vars, appVars, loopVars, Messages, Operations
      <4> QED BY <1>1, <4>2, UntouchedOrphan
    <3> QED BY <1>1, <3>1, <3>2, <3>3, <3>4, <3>5 DEF Next, OnClientUpdate, Peer, Finished
  <2> DEFINE d == m_allSessionMap[t]
             isSuc == (IF d.tcp = "connected" /\ ~readStarted
                       THEN 0 ELSE ConnectStatus(UvStatus(d.tcp))) = 1
             status == IF d.tcp = "connected" /\ ~readStarted
                       THEN 0 ELSE ConnectStatus(UvStatus(d.tcp))
             after == [d EXCEPT !.tcp = IF isSuc THEN "open" ELSE "idle", !.isOnline = isSuc,
                                !.connectState = IF isSuc THEN "CONNECT" ELSE "DISCONNECT"]
  <2>2. d \in clientSessionData /\ SocketInv(d) /\ d.tcp \in {"connected", "refused", "timedout"}
    BY <1>1, <2>1 DEF ClientInv, TypeOK, OnSocketConnect
  <2>3. d.connectState = "CONNECTING"
    BY <2>2 DEF SocketInv, clientSessionData, ConnectState
  <2>4. \/ Callback(t, after, <<Msg(ConnectMsg(status), t, d)>>)
        \/ Callback(t, ExecuteDisconnect(after), <<>>)
    BY <2>1 DEF OnSocketConnect
  <2>5. isSuc \in BOOLEAN /\ status \in {0, 1, 2}
    BY DEF ConnectStatus
  <2>6. ConnectMsg(status) \in NetThreadMsgType \ {"EXIT_LOOP", "REMOVE_SESSION"}
    BY <2>5 DEF ConnectMsg, NetThreadMsgType
  <2> HIDE DEF isSuc, status
  <2>7. after \in clientSessionData /\ after.removeTag = d.removeTag
    BY <2>2, <2>5 DEF clientSessionData, ConnectState, TcpHandle
  <2> HIDE DEF after
  <2>8. ExecuteDisconnect(after).removeTag = d.removeTag
    BY <2>7, DisconnectKeeps
  <2>9. d.removeTag /\ s = t
    <3>1. SUFFICES ASSUME ~(d.removeTag /\ s = t) PROVE FALSE
      OBVIOUS
    <3>2. s = t => ~Leaving(after) /\ ~Leaving(ExecuteDisconnect(after))
      BY <2>7, <2>8, <3>1 DEF Leaving
    <3> DEFINE msgs == <<Msg(ConnectMsg(status), t, d)>>
    <3>3. msgs \in Seq(NetThreadMsg)
      BY <2>2, <2>6, OneMessage
    <3>4. CASE Callback(t, after, msgs)
      <4> HIDE DEF msgs
      <4> QED BY <1>1, <3>2, <3>3, <3>4, CallbackOrphan
    <3>5. CASE Callback(t, ExecuteDisconnect(after), <<>>)
      BY <1>1, <3>2, <3>5, CallbackOrphanSilent
    <3> QED BY <2>4, <3>4, <3>5
  <2> QED BY <2>2, <2>3, <2>9
<1>2. ASSUME ClientInv, [Next]_vars
      PROVE  [\A s \in SessionIDs :
                ~Orphan(s) /\ Orphan(s)' =>
                   /\ m_allSessionMap[s].removeTag
                   /\ m_allSessionMap[s].connectState = "CONNECTING"
                   /\ m_allSessionMap[s].tcp \in {"connected", "refused", "timedout"}]_vars
  BY <1>1, <1>2
<1> QED BY <1>2, Safety, PTL DEF Spec, OrphanedByFailedConnect

-----------------------------------------------------------------------------
(* The contract: what the application will be told.                        *)

Online == Contract!Online
Words  == {"none", "up", "talking", "failed", "down", "removed"}

(* After word w of a session with entry d, this message may come. *)
May(w, type, d, isStop) ==
    /\ type \in {"CONNECT", "CONNECT_FAIL", "CONNECT_TIMOUT"} => w \notin Online
    /\ type = "RECV_DATA" => w \in Online
    /\ type = "DIS_CONNECT" => w \in Online \/ d.removeTag \/ isStop
    /\ type = "REMOVE_SESSION" => w \in {"failed", "down"}

(* The messages msgs lead the application from word w of session s to w2;  *)
(* each of them may come when its turn comes.                              *)
Leads(w, s, msgs, d, isStop, w2) ==
    \E f \in [0 .. Len(msgs) -> Words] :
        /\ f[0] = w /\ f[Len(msgs)] = w2
        /\ \A i \in 1 .. Len(msgs) :
              IF msgs[i].sessionID = s
              THEN f[i] = Told(msgs[i].type) /\ May(f[i - 1], msgs[i].type, d, isStop)
              ELSE f[i] = f[i - 1]

(* The last word queued of a session fits its entry.  One that came up     *)
(* unnoticed, being removed or after closeClient(), is closing already.    *)
LastWord(w, d, isStop) ==
    /\ ~d.inMap => w \in {"none", "removed"}
    /\ d.inMap /\ d.connectState = "DISCONNECT" =>
          w \in {"failed", "down"} \/ (w = "removed" /\ d.removeTag)
    /\ d.connectState = "CONNECTING" => w \notin Online
    /\ d.connectState \in {"CONNECT", "DISCONNECTING"} =>
          w \in Online \/ (d.closing /\ (d.removeTag \/ isStop))

(* A session in the streams M and O, of which t was said last *)
WordInv(s, M, O, d, t, isStop) ==
    /\ \E w \in Words : Leads(t, s, M, d, isStop, w) /\ LastWord(w, d, isStop)
    /\ \A i \in DOMAIN O : IsDeletion(O[i], s) => t = "removed"

TellInv ==
    app # "gone" =>
       \A s \in SessionIDs :
          WordInv(s, Messages, Operations, m_allSessionMap[s], told[s], m_isStop)

(* The sessions that are being removed stay until they are freed. *)
Removing(s) == InMap(s) /\ m_allSessionMap[s].removeTag
RemovingStays == \A s \in SessionIDs : Removing(s) => Removing(s)'

(* One stream after another *)
LEMMA LeadsConcat ==
    ASSUME NEW M \in Seq(NetThreadMsg), NEW N \in Seq(NetThreadMsg), NEW s, NEW d, NEW isStop,
           NEW w, NEW w2, NEW w3,
           Leads(w, s, M, d, isStop, w2), Leads(w2, s, N, d, isStop, w3)
    PROVE  Leads(w, s, M \o N, d, isStop, w3)
<1>1. /\ Len(M) \in Nat /\ Len(N) \in Nat /\ Len(M \o N) = Len(M) + Len(N)
      /\ \A i \in 1 .. Len(M) + Len(N) :
            (M \o N)[i] = IF i <= Len(M) THEN M[i] ELSE N[i - Len(M)]
  BY ConcatProperties, LenProperties
<1>2. PICK f \in [0 .. Len(M) -> Words] :
        /\ f[0] = w /\ f[Len(M)] = w2
        /\ \A i \in 1 .. Len(M) :
              IF M[i].sessionID = s
              THEN f[i] = Told(M[i].type) /\ May(f[i - 1], M[i].type, d, isStop)
              ELSE f[i] = f[i - 1]
  BY DEF Leads
<1>3. PICK g \in [0 .. Len(N) -> Words] :
        /\ g[0] = w2 /\ g[Len(N)] = w3
        /\ \A i \in 1 .. Len(N) :
              IF N[i].sessionID = s
              THEN g[i] = Told(N[i].type) /\ May(g[i - 1], N[i].type, d, isStop)
              ELSE g[i] = g[i - 1]
  BY DEF Leads
<1> DEFINE h == [i \in 0 .. Len(M) + Len(N) |-> IF i <= Len(M) THEN f[i] ELSE g[i - Len(M)]]
<1>4. h \in [0 .. Len(M) + Len(N) -> Words]
  BY <1>1, <1>2, <1>3
<1>5. h[0] = w
  BY <1>1, <1>2
<1>6. h[Len(M) + Len(N)] = w3
  <2>1. CASE Len(N) = 0
    <3>1. h[Len(M) + Len(N)] = f[Len(M)]
      BY <1>1, <2>1
    <3> QED BY <1>2, <1>3, <2>1, <3>1
  <2>2. CASE Len(N) # 0
    <3>1. h[Len(M) + Len(N)] = g[Len(N)]
      BY <1>1, <2>2
    <3> QED BY <1>3, <3>1
  <2> QED BY <2>1, <2>2
<1>7. ASSUME NEW i \in 1 .. Len(M) + Len(N)
      PROVE  IF (M \o N)[i].sessionID = s
             THEN /\ h[i] = Told((M \o N)[i].type)
                  /\ May(h[i - 1], (M \o N)[i].type, d, isStop)
             ELSE h[i] = h[i - 1]
  <2>1. CASE i <= Len(M)
    <3>1. i \in 1 .. Len(M) /\ (M \o N)[i] = M[i] /\ h[i] = f[i] /\ h[i - 1] = f[i - 1]
      BY <1>1, <2>1
    <3> HIDE DEF h
    <3> QED BY <1>2, <3>1
  <2>2. CASE ~(i <= Len(M))
    <3> DEFINE k == i - Len(M)
    <3>1. k \in 1 .. Len(N) /\ (M \o N)[i] = N[k] /\ h[i] = g[k]
      BY <1>1, <2>2
    <3>2. h[i - 1] = g[k - 1]
      <4>1. CASE i = Len(M) + 1
        <5>1. h[i - 1] = f[Len(M)] /\ k - 1 = 0
          BY <1>1, <4>1
        <5> HIDE DEF h, k
        <5> QED BY <1>2, <1>3, <5>1
      <4>2. CASE i # Len(M) + 1
        <5>1. ~(i - 1 <= Len(M)) /\ i - 1 \in 0 .. Len(M) + Len(N) /\ (i - 1) - Len(M) = k - 1
          BY <1>1, <2>2, <4>2
        <5> HIDE DEF k
        <5> QED BY <5>1
      <4> QED BY <4>1, <4>2
    <3> HIDE DEF h, k
    <3> QED BY <1>3, <3>1, <3>2
  <2> QED BY <2>1, <2>2
<1> HIDE DEF h
<1> QED BY <1>1, <1>4, <1>5, <1>6, <1>7 DEF Leads

(* What may come still may when the session is being removed or the client *)
(* closed meanwhile.                                                       *)
LEMMA LeadsGrows ==
    ASSUME NEW M, NEW s, NEW d, NEW d2, NEW isStop \in BOOLEAN, NEW isStop2 \in BOOLEAN,
           NEW w, NEW w2, Leads(w, s, M, d, isStop, w2),
           d.removeTag => d2.removeTag, isStop => isStop2
    PROVE  Leads(w, s, M, d2, isStop2, w2)
<1>1. \A v, type : May(v, type, d, isStop) => May(v, type, d2, isStop2)
  BY DEF May
<1> QED BY <1>1 DEF Leads

(* Messages about others say nothing. *)
LEMMA LeadsNowhere ==
    ASSUME NEW M \in Seq(NetThreadMsg), NEW s, NEW d, NEW isStop, NEW w \in Words,
           \A i \in DOMAIN M : M[i].sessionID # s
    PROVE  Leads(w, s, M, d, isStop, w)
<1> DEFINE f == [i \in 0 .. Len(M) |-> w]
<1>1. Len(M) \in Nat /\ DOMAIN M = 1 .. Len(M)
  BY LenProperties
<1>2. f \in [0 .. Len(M) -> Words] /\ f[0] = w /\ f[Len(M)] = w
  BY <1>1
<1>3. \A i \in 1 .. Len(M) : M[i].sessionID # s /\ f[i] = f[i - 1]
  BY <1>1
<1> HIDE DEF f
<1> QED BY <1>2, <1>3 DEF Leads

(* One message about the session is one word. *)
LEMMA LeadsByOne ==
    ASSUME NEW s, NEW m \in NetThreadMsg, m.sessionID = s, NEW d, NEW isStop, NEW w \in Words,
           Told(m.type) \in Words, May(w, m.type, d, isStop)
    PROVE  Leads(w, s, <<m>>, d, isStop, Told(m.type))
<1> DEFINE f == [i \in 0 .. 1 |-> IF i = 0 THEN w ELSE Told(m.type)]
<1>1. Len(<<m>>) = 1 /\ <<m>>[1] = m
  OBVIOUS
<1>2. f \in [0 .. 1 -> Words] /\ f[0] = w /\ f[1] = Told(m.type)
  OBVIOUS
<1> HIDE DEF f
<1>3. \A i \in 1 .. 1 : i = 1 /\ f[i - 1] = w
  BY <1>2
<1> QED BY <1>1, <1>2, <1>3 DEF Leads

(* One message among others about other sessions is one word. *)
LEMMA LeadsByOneOf ==
    ASSUME NEW M \in Seq(NetThreadMsg), NEW s, NEW d, NEW isStop, NEW w \in Words,
           NEW k \in DOMAIN M, M[k].sessionID = s,
           \A i \in DOMAIN M : M[i].sessionID = s => i = k,
           Told(M[k].type) \in Words, May(w, M[k].type, d, isStop)
    PROVE  Leads(w, s, M, d, isStop, Told(M[k].type))
<1> DEFINE f == [i \in 0 .. Len(M) |-> IF i < k THEN w ELSE Told(M[k].type)]
<1>1. Len(M) \in Nat /\ DOMAIN M = 1 .. Len(M) /\ k \in 1 .. Len(M)
  BY LenProperties
<1>2. f \in [0 .. Len(M) -> Words] /\ f[0] = w /\ f[Len(M)] = Told(M[k].type)
  BY <1>1
<1>3. ASSUME NEW i \in 1 .. Len(M)
      PROVE  IF M[i].sessionID = s
             THEN f[i] = Told(M[i].type) /\ May(f[i - 1], M[i].type, d, isStop)
             ELSE f[i] = f[i - 1]
  <2>1. CASE i = k
    <3>1. f[i] = Told(M[k].type) /\ f[i - 1] = w
      BY <1>1, <2>1
    <3> HIDE DEF f
    <3> QED BY <2>1, <3>1
  <2>2. CASE i # k
    <3>1. f[i] = f[i - 1]
      BY <1>1, <2>2
    <3> HIDE DEF f
    <3> QED BY <1>1, <2>2, <3>1
  <2> QED BY <2>1, <2>2
<1> HIDE DEF f
<1> QED BY <1>2, <1>3 DEF Leads

(* Hearing the first message *)
LEMMA LeadsTail ==
    ASSUME NEW M \in Seq(NetThreadMsg), M # <<>>, NEW s, NEW d, NEW isStop, NEW w, NEW w2,
           Leads(w, s, M, d, isStop, w2)
    PROVE  IF Head(M).sessionID = s
           THEN /\ May(w, Head(M).type, d, isStop)
                /\ Leads(Told(Head(M).type), s, Tail(M), d, isStop, w2)
           ELSE Leads(w, s, Tail(M), d, isStop, w2)
<1>1. /\ Len(M) \in Nat \ {0} /\ Head(M) = M[1]
      /\ Tail(M) \in Seq(NetThreadMsg) /\ Len(Tail(M)) = Len(M) - 1
      /\ \A i \in 1 .. Len(M) - 1 : Tail(M)[i] = M[i + 1]
  BY TailIndex, HeadTailProperties
<1>2. PICK f \in [0 .. Len(M) -> Words] :
        /\ f[0] = w /\ f[Len(M)] = w2
        /\ \A i \in 1 .. Len(M) :
              IF M[i].sessionID = s
              THEN f[i] = Told(M[i].type) /\ May(f[i - 1], M[i].type, d, isStop)
              ELSE f[i] = f[i - 1]
  BY DEF Leads
<1> DEFINE n == Len(M) - 1
           g == [i \in 0 .. n |-> f[i + 1]]
<1>3. g \in [0 .. n -> Words] /\ g[0] = f[1] /\ g[n] = w2
  BY <1>1, <1>2
<1>4. \A i \in 1 .. n : Tail(M)[i] = M[i + 1] /\ g[i] = f[i + 1] /\ g[i - 1] = f[i]
                          /\ i + 1 \in 1 .. Len(M) /\ (i + 1) - 1 = i
  BY <1>1
<1>5. Len(Tail(M)) = n
  BY <1>1
<1> HIDE DEF g, n
<1>6. ASSUME NEW i \in 1 .. n
      PROVE  IF Tail(M)[i].sessionID = s
             THEN g[i] = Told(Tail(M)[i].type) /\ May(g[i - 1], Tail(M)[i].type, d, isStop)
             ELSE g[i] = g[i - 1]
  <2>1. i + 1 \in 1 .. Len(M) /\ (i + 1) - 1 = i
    BY <1>4
  <2>2. IF M[i + 1].sessionID = s
        THEN f[i + 1] = Told(M[i + 1].type) /\ May(f[(i + 1) - 1], M[i + 1].type, d, isStop)
        ELSE f[i + 1] = f[(i + 1) - 1]
    BY <1>2, <2>1
  <2> QED BY <1>4, <2>1, <2>2
<1>7. Leads(f[1], s, Tail(M), d, isStop, w2)
  BY <1>3, <1>5, <1>6 DEF Leads
<1>8. IF M[1].sessionID = s
      THEN f[1] = Told(M[1].type) /\ May(f[0], M[1].type, d, isStop)
      ELSE f[1] = f[0]
  <2>1. 1 \in 1 .. Len(M) /\ 1 - 1 = 0
    BY <1>1
  <2> QED BY <1>2, <2>1
<1> QED BY <1>1, <1>2, <1>7, <1>8

-----------------------------------------------------------------------------
(* The contract: steps of the loop thread.                                 *)

(* An entry d becomes d2 while msgs are sent: whatever word was queued     *)
(* last, they may come after it, and lead to one that fits d2.             *)
Continues(s, d, msgs, d2, isStop) ==
    /\ d.inMap /\ d.removeTag => d2.inMap
    /\ d.removeTag => d2.removeTag
    /\ \A w \in Words : LastWord(w, d, isStop) =>
          \E w2 \in Words : Leads(w, s, msgs, d2, isStop, w2) /\ LastWord(w2, d2, isStop)

(* Messages about others change nothing.                                   *)
LEMMA ContinuesNothing ==
    ASSUME NEW s, NEW d, NEW msgs \in Seq(NetThreadMsg), NEW isStop,
           \A i \in DOMAIN msgs : msgs[i].sessionID # s
    PROVE  Continues(s, d, msgs, d, isStop)
  BY LeadsNowhere DEF Continues

(* ... and what was so of the streams is so after the step.                *)
LEMMA ContinuesWord ==
    ASSUME TypeOK, NEW s, NEW d, NEW d2, NEW msgs \in Seq(NetThreadMsg), NEW t,
           WordInv(s, Messages, Operations, d, t, m_isStop),
           Continues(s, d, msgs, d2, m_isStop),
           Messages' = Messages \o msgs,
           \/ Operations' = Operations
           \/ \E op \in SessionOperation :
                 ~IsDeletion(op, s) /\ Operations' = Append(Operations, op)
           \/ Operations # <<>> /\ Operations' = Tail(Operations)
    PROVE  WordInv(s, Messages', Operations', d2, t, m_isStop)
<1>1. Messages \in Seq(NetThreadMsg) /\ Operations \in Seq(SessionOperation) /\ m_isStop \in BOOLEAN
  BY StreamTypes DEF TypeOK
<1>2. PICK w \in Words : Leads(t, s, Messages, d, m_isStop, w) /\ LastWord(w, d, m_isStop)
  BY DEF WordInv
<1>3. PICK w2 \in Words : Leads(w, s, msgs, d2, m_isStop, w2) /\ LastWord(w2, d2, m_isStop)
  BY <1>2 DEF Continues
<1>4. Leads(t, s, Messages, d2, m_isStop, w)
  BY <1>1, <1>2, LeadsGrows DEF Continues
<1>5. Leads(t, s, Messages \o msgs, d2, m_isStop, w2)
  BY <1>1, <1>3, <1>4, LeadsConcat
<1>6. ASSUME NEW i \in DOMAIN Operations', IsDeletion(Operations'[i], s)
      PROVE  \E j \in DOMAIN Operations : IsDeletion(Operations[j], s)
  <2>1. CASE Operations' = Operations
    BY <1>6, <2>1
  <2>2. CASE \E op \in SessionOperation :
                ~IsDeletion(op, s) /\ Operations' = Append(Operations, op)
    <3>1. PICK op \in SessionOperation :
             ~IsDeletion(op, s) /\ Operations' = Append(Operations, op)
      BY <2>2
    <3>2. /\ DOMAIN Operations = 1 .. Len(Operations) /\ Len(Operations) \in Nat
          /\ DOMAIN Operations' = 1 .. Len(Operations) + 1
          /\ Operations'[Len(Operations) + 1] = op
          /\ \A k \in DOMAIN Operations : Operations'[k] = Operations[k]
      BY <1>1, <3>1, AppendIndex
    <3>3. i # Len(Operations) + 1
      BY <1>6, <3>1, <3>2
    <3>4. i \in DOMAIN Operations
      <4> DEFINE n == Len(Operations)
      <4>1. n \in Nat /\ i \in 1 .. n + 1 /\ i # n + 1
        BY <1>6, <3>2, <3>3
      <4> HIDE DEF n
      <4>2. i \in 1 .. n
        BY <4>1
      <4> QED BY <3>2, <4>2 DEF n
    <3> QED BY <1>6, <3>2, <3>4
  <2>3. CASE Operations # <<>> /\ Operations' = Tail(Operations)
    <3>1. i + 1 \in DOMAIN Operations /\ Operations'[i] = Operations[i + 1]
      BY <1>1, <1>6, <2>3, TailIndex
    <3> QED BY <1>6, <3>1
  <2> QED BY <2>1, <2>2, <2>3
<1> QED BY <1>3, <1>5, <1>6 DEF WordInv

(* A step of the loop thread turns every entry so, and says the messages.  *)
LEMMA LoopStepTells ==
    ASSUME TypeOK, TellInv, app # "gone", NEW msgs \in Seq(NetThreadMsg),
           UNCHANGED <<app, told, m_isStop>>,
           Messages' = Messages \o msgs,
           \/ Operations' = Operations
           \/ \E op \in SessionOperation : Operations' = Append(Operations, op) /\
                                           \A s \in SessionIDs : ~IsDeletion(op, s)
           \/ Operations # <<>> /\ Operations' = Tail(Operations),
           \A s \in SessionIDs :
              Continues(s, m_allSessionMap[s], msgs, m_allSessionMap'[s], m_isStop)
    PROVE  TellInv' /\ RemovingStays
<1>1. ASSUME NEW s \in SessionIDs
      PROVE  WordInv(s, Messages', Operations', m_allSessionMap'[s], told[s], m_isStop)
  <2>1. \/ Operations' = Operations
        \/ \E op \in SessionOperation : ~IsDeletion(op, s) /\ Operations' = Append(Operations, op)
        \/ Operations # <<>> /\ Operations' = Tail(Operations)
    OBVIOUS
  <2>2. WordInv(s, Messages, Operations, m_allSessionMap[s], told[s], m_isStop)
    BY DEF TellInv
  <2> QED BY <2>1, <2>2, ContinuesWord
<1>2. RemovingStays
  BY DEF RemovingStays, Removing, InMap, Continues
<1> QED BY <1>1, <1>2 DEF TellInv

(* An operation that continues what was said of its session                *)
LEMMA ExecutedTells ==
    ASSUME ClientInv, TellInv, app # "gone",
           NEW type, type \notin {"SET_AUTO_CONNECT", "CLIENT_CLOSE"},
           Executing(type), NEW data, NEW msgs \in Seq(NetThreadMsg), Executed(data, msgs),
           \A i \in DOMAIN msgs : msgs[i].sessionID = curOperation.sessionID,
           Continues(curOperation.sessionID, Target, msgs, data, m_isStop)
    PROVE  TellInv' /\ RemovingStays
<1>1. curOperation.sessionID \in SessionIDs
  BY TargetType DEF ClientInv
<1>2. ASSUME NEW s \in SessionIDs
      PROVE  Continues(s, m_allSessionMap[s], msgs, m_allSessionMap'[s], m_isStop)
  <2>1. CASE s = curOperation.sessionID
    <3>1. m_allSessionMap'[s] = data /\ m_allSessionMap[s] = Target
      BY <1>1, <2>1 DEF Executed, Target, ClientInv, TypeOK
    <3> QED BY <2>1, <3>1
  <2>2. CASE s # curOperation.sessionID
    <3>1. m_allSessionMap'[s] = m_allSessionMap[s]
      BY <1>1, <2>2 DEF Executed, ClientInv, TypeOK
    <3> QED BY <2>2, <3>1, ContinuesNothing
  <2> QED BY <2>1, <2>2
<1>3. Messages' = Messages \o msgs
  BY SayMessages DEF Executed, Executing, appVars, ClientInv
<1>4. Operations # <<>> /\ Operations' = Tail(Operations)
  BY ExecutingStream DEF ClientInv
<1>5. UNCHANGED <<app, told, m_isStop>>
  BY DEF Executing, appVars
<1> QED BY <1>2, <1>3, <1>4, <1>5, LoopStepTells DEF ClientInv

(* A callback that does                                                    *)
LEMMA CallbackTells ==
    ASSUME ClientInv, TellInv, app # "gone", NEW t \in SessionIDs, NEW data,
           NEW msgs \in Seq(NetThreadMsg), Callback(t, data, msgs),
           \A i \in DOMAIN msgs : msgs[i].sessionID = t,
           Continues(t, m_allSessionMap[t], msgs, data, m_isStop)
    PROVE  TellInv' /\ RemovingStays
<1>1. ASSUME NEW s \in SessionIDs
      PROVE  Continues(s, m_allSessionMap[s], msgs, m_allSessionMap'[s], m_isStop)
  <2>1. CASE s = t
    <3>1. m_allSessionMap'[t] = data
      BY DEF Callback, ClientInv, TypeOK
    <3> QED BY <2>1, <3>1
  <2>2. CASE s # t
    <3>1. m_allSessionMap'[s] = m_allSessionMap[s]
      BY <2>2 DEF Callback, ClientInv, TypeOK
    <3> QED BY <2>2, <3>1, ContinuesNothing
  <2> QED BY <2>1, <2>2
<1>2. Messages' = Messages \o msgs /\ Operations' = Operations
  BY SayMessages DEF Callback, appVars, ClientInv, Operations
<1>3. UNCHANGED <<app, told, m_isStop>>
  BY DEF Callback, appVars
<1> QED BY <1>1, <1>2, <1>3, LoopStepTells DEF ClientInv

(* Without a message the entry need only fit what was said. *)
ContinuesSilently(d, d2, isStop) ==
    /\ d.inMap /\ d.removeTag => d2.inMap
    /\ d.removeTag => d2.removeTag
    /\ \A w \in Words : LastWord(w, d, isStop) => LastWord(w, d2, isStop)

(* A step that says nothing of the session                                 *)
LEMMA SilenceContinues ==
    ASSUME NEW s, NEW d, NEW d2, NEW isStop, ContinuesSilently(d, d2, isStop),
           NEW msgs \in Seq(NetThreadMsg), \A i \in DOMAIN msgs : msgs[i].sessionID # s
    PROVE  Continues(s, d, msgs, d2, isStop)
  BY LeadsNowhere DEF Continues, ContinuesSilently

(* An operation that says nothing                                          *)
LEMMA ExecutedSilently ==
    ASSUME ClientInv, TellInv, app # "gone",
           NEW type, type \notin {"SET_AUTO_CONNECT", "CLIENT_CLOSE"},
           Executing(type), NEW data, Executed(data, <<>>),
           ContinuesSilently(Target, data, m_isStop)
    PROVE  TellInv' /\ RemovingStays
<1> DEFINE msgs == <<>>
<1>1. msgs \in Seq(NetThreadMsg) /\ Executed(data, msgs) /\ DOMAIN msgs = {}
  BY EmptyMessages
<1> HIDE DEF msgs
<1>2. Continues(curOperation.sessionID, Target, msgs, data, m_isStop)
  BY <1>1, SilenceContinues
<1> QED BY <1>1, <1>2, ExecutedTells

(* A callback that says nothing                                            *)
LEMMA CallbackSilently ==
    ASSUME ClientInv, TellInv, app # "gone", NEW t \in SessionIDs, NEW data,
           Callback(t, data, <<>>), ContinuesSilently(m_allSessionMap[t], data, m_isStop)
    PROVE  TellInv' /\ RemovingStays
<1> DEFINE msgs == <<>>
<1>1. msgs \in Seq(NetThreadMsg) /\ Callback(t, data, msgs) /\ DOMAIN msgs = {}
  BY EmptyMessages
<1> HIDE DEF msgs
<1>2. Continues(t, m_allSessionMap[t], msgs, data, m_isStop)
  BY <1>1, SilenceContinues
<1> QED BY <1>1, <1>2, CallbackTells

(* One message, after any word that was the last *)
LEMMA OneContinues ==
    ASSUME NEW s \in SessionIDs, NEW type \in NetThreadMsgType \ {"EXIT_LOOP"},
           NEW d \in clientSessionData, NEW d2 \in clientSessionData,
           NEW data \in clientSessionData, NEW isStop,
           d.inMap /\ d.removeTag => d2.inMap, d.removeTag => d2.removeTag,
           \A w \in Words : LastWord(w, d, isStop) =>
              May(w, type, d2, isStop) /\ LastWord(Told(type), d2, isStop)
    PROVE  Continues(s, d, <<Msg(type, s, data)>>, d2, isStop)
<1> DEFINE m == Msg(type, s, data)
<1>1. m \in NetThreadMsg /\ m.sessionID = s /\ m.type = type
  BY MessageTypes DEF Msg
<1>2. Told(type) \in Words
  BY DEF Told, Words, NetThreadMsgType
<1> HIDE DEF m
<1>3. \A w \in Words : LastWord(w, d, isStop) => Leads(w, s, <<m>>, d2, isStop, Told(type))
  BY <1>1, <1>2, LeadsByOne
<1>4. Continues(s, d, <<m>>, d2, isStop)
  BY <1>2, <1>3 DEF Continues
<1> QED BY <1>4 DEF m

(* An entry that keeps its place, its marks and a close under way fits all *)
(* that was said.                                                          *)
LEMMA SameContinues ==
    ASSUME NEW d, NEW d2, NEW isStop, d2.inMap = d.inMap,
           \/ d2.connectState = d.connectState
           \/ d.connectState = "CONNECT" /\ d2.connectState = "DISCONNECTING",
           d.removeTag => d2.removeTag, d.closing => d2.closing
    PROVE  ContinuesSilently(d, d2, isStop)
  BY DEF ContinuesSilently, LastWord

(* A socket that is closing is closing whatever is done to it.             *)
LEMMA DisconnectCloses ==
    ASSUME NEW data \in clientSessionData, data.closing
    PROVE  \A d \in {ExecuteDisconnect(data), SocketDisconnect(data)}
                       \cup {ExecuteSend(data, wrote) : wrote \in BOOLEAN} : d.closing
<1>1. SocketDisconnect(data).closing
  BY DEF SocketDisconnect, clientSessionData
<1>2. ExecuteDisconnect(data).closing
  BY DEF ExecuteDisconnect, SocketDisconnect, clientSessionData
<1> QED BY <1>1, <1>2 DEF ExecuteSend

(* A session that is down, or new, may be connected or fail to be. *)
LEMMA StartContinues ==
    ASSUME NEW s \in SessionIDs, NEW d \in clientSessionData, NEW data \in clientSessionData,
           NEW isStop, ~d.removeTag, d.connectState = "DISCONNECT",
           data.inMap, data.connectState = "DISCONNECT", ~data.isOnline
    PROVE  /\ ContinuesSilently(d, Connecting(data), isStop)
           /\ Continues(s, d, <<Msg("CONNECT_FAIL", s, data)>>, ExecuteDisconnect(data), isStop)
<1>1. \A w \in Words : LastWord(w, d, isStop) => w \notin Online
  BY DEF LastWord, Online, Contract!Online, clientSessionData
<1>2. ContinuesSilently(d, Connecting(data), isStop)
  <2> DEFINE d2 == Connecting(data)
  <2>1. d2.inMap /\ d2.connectState = "CONNECTING"
    BY DEF Connecting, clientSessionData
  <2> HIDE DEF d2
  <2>2. ContinuesSilently(d, d2, isStop)
    BY <1>1, <2>1 DEF ContinuesSilently, LastWord
  <2> QED BY <2>2 DEF d2
<1>3. ExecuteDisconnect(data) = data
  BY DEF ExecuteDisconnect
<1>4. LastWord(Told("CONNECT_FAIL"), data, isStop)
  BY DEF LastWord, Told
<1>5. \A w \in Words : LastWord(w, d, isStop) => May(w, "CONNECT_FAIL", data, isStop)
  BY <1>1 DEF May
<1>6. Continues(s, d, <<Msg("CONNECT_FAIL", s, data)>>, data, isStop)
  BY <1>4, <1>5, OneContinues DEF NetThreadMsgType
<1> QED BY <1>2, <1>3, <1>6

(* Every operation but the deletion keeps to this.                         *)
LEMMA OperationTells ==
    ASSUME ClientInv, TellInv, app # "gone", ExecuteOperation, ~ExecuteDeleteSession
    PROVE  TellInv' /\ RemovingStays
<1>1. CASE TakeOperations
  <2>1. Operations = m_operationQue /\ Operations' = m_operationQue
    BY <1>1, ConcatEmptySeq DEF TakeOperations, LoopFree, Operations, ClientInv, TypeOK
  <2>2. Messages' = Messages /\ UNCHANGED <<m_allSessionMap, told, app, m_isStop>>
    BY <1>1 DEF TakeOperations, Messages, appVars
  <2> QED BY <2>1, <2>2 DEF TellInv, RemovingStays, Removing, InMap
<1>2. CASE ExecuteSendData
  <2>1. Target \in clientSessionData /\ Executing("SENDDATA")
    BY <1>2, TargetType DEF ClientInv, ExecuteSendData
  <2>2. PICK data : Executed(data, <<>>) /\ (data = Target
                       \/ \E wrote \in BOOLEAN : data = ExecuteSend(Target, wrote))
    BY <1>2 DEF ExecuteSendData
  <2>3. ContinuesSilently(Target, data, m_isStop)
    BY <2>1, <2>2, DisconnectKeeps, DisconnectCloses, SameContinues
  <2> QED BY <2>1, <2>2, <2>3, ExecutedSilently
<1>3. CASE ExecuteDisconnectOp
  <2> DEFINE leaving == [Target EXCEPT !.connectState = "DISCONNECTING"]
  <2>1. Target \in clientSessionData /\ Executing("DISCONNECT")
    BY <1>3, TargetType DEF ClientInv, ExecuteDisconnectOp
  <2>2. /\ leaving \in clientSessionData /\ leaving.connectState = "DISCONNECTING"
        /\ leaving.inMap = Target.inMap /\ leaving.removeTag = Target.removeTag
        /\ leaving.closing = Target.closing
    BY <2>1 DEF clientSessionData, ConnectState
  <2>3. \/ Executed(Target, <<>>)
        \/ Target.connectState = "CONNECT" /\ Executed(ExecuteDisconnect(leaving), <<>>)
    BY <1>3 DEF ExecuteDisconnectOp
  <2> HIDE DEF leaving
  <2>4. Target.connectState = "CONNECT" =>
           ContinuesSilently(Target, ExecuteDisconnect(leaving), m_isStop)
    BY <2>2, DisconnectKeeps, DisconnectCloses, SameContinues
  <2>5. ContinuesSilently(Target, Target, m_isStop)
    BY SameContinues
  <2> QED BY <2>1, <2>3, <2>4, <2>5, ExecutedSilently
<1>4. CASE CreateNewConnect
  <2>1. /\ Target \in clientSessionData /\ curOperation.sessionID \in SessionIDs
        /\ Executing("CONNECT")
    BY <1>4, TargetType DEF ClientInv, CreateNewConnect
  <2>2. SocketInv(Target)
    BY <2>1 DEF ClientInv, Target
  <2>3. /\ NewSession \in clientSessionData /\ NewSession.inMap
        /\ NewSession.connectState = "DISCONNECT" /\ ~NewSession.isOnline
    <3>1. NoEntry(Target.incarnation + 1) \in clientSessionData /\ m_reconnect \in BOOLEAN
      BY <2>1, EntryOperators DEF ClientInv, TypeOK
    <3>2. /\ NoEntry(Target.incarnation + 1).connectState = "DISCONNECT"
          /\ ~NoEntry(Target.incarnation + 1).isOnline
      BY DEF NoEntry
    <3> QED BY <3>1, <3>2 DEF NewSession, clientSessionData
  <2>4. ASSUME NEW data \in clientSessionData, data.inMap, data.connectState = "DISCONNECT",
               ~data.isOnline, ~Target.removeTag, Target.connectState = "DISCONNECT",
               NEW started \in BOOLEAN, StartConnect(data, started)
        PROVE  TellInv' /\ RemovingStays
    <3> DEFINE s == curOperation.sessionID
               msgs == <<Msg("CONNECT_FAIL", s, data)>>
    <3>1. /\ ContinuesSilently(Target, Connecting(data), m_isStop)
          /\ Continues(s, Target, msgs, ExecuteDisconnect(data), m_isStop)
      BY <2>1, <2>4, StartContinues
    <3>2. CASE Executed(Connecting(data), <<>>)
      BY <2>1, <3>1, <3>2, ExecutedSilently
    <3>3. CASE Executed(ExecuteDisconnect(data), msgs)
      <4>1. msgs \in Seq(NetThreadMsg)
        BY <2>1, OneMessage DEF NetThreadMsgType
      <4>2. \A i \in DOMAIN msgs : msgs[i].sessionID = s
        BY DEF Msg
      <4> HIDE DEF msgs
      <4> QED BY <2>1, <3>1, <3>3, <4>1, <4>2, ExecutedTells
    <3> QED BY <2>4, <3>2, <3>3 DEF StartConnect, TargetMsg
  <2>5. CASE Executed(Target, <<>>)
    <3>1. ContinuesSilently(Target, Target, m_isStop)
      BY SameContinues
    <3> QED BY <2>1, <2>5, <3>1, ExecutedSilently
  <2>6. ~Target.inMap => ~Target.removeTag /\ Target.connectState = "DISCONNECT"
    BY <2>2 DEF SocketInv
  <2>7. AnnounceNow(Target) => /\ ~Target.removeTag /\ Target.connectState = "DISCONNECT"
                               /\ ~Target.isOnline
    BY <2>2 DEF AnnounceNow, SocketInv
  <2> QED BY <1>4, <2>1, <2>3, <2>4, <2>5, <2>6, <2>7 DEF CreateNewConnect
<1>5. CASE ExecuteSetAutoConnect \/ ExecuteClientClose
  <2> DEFINE msgs == <<>>
  <2>1. Operations # <<>> /\ Operations' = Tail(Operations)
    BY <1>5, ExecutingStream DEF ClientInv, ExecuteSetAutoConnect, ExecuteClientClose
  <2>2. msgs \in Seq(NetThreadMsg) /\ DOMAIN msgs = {} /\ Messages' = Messages \o msgs
    <3>1. Messages' = Messages
      BY <1>5 DEF ExecuteSetAutoConnect, ExecuteClientClose, Executing, appVars, Messages
    <3> QED BY <3>1, EmptyMessages, StreamTypes, ConcatEmptySeq DEF ClientInv
  <2>3. UNCHANGED <<app, told, m_isStop>>
    BY <1>5 DEF ExecuteSetAutoConnect, ExecuteClientClose, Executing, appVars
  <2> HIDE DEF msgs
  <2>4. ASSUME NEW s \in SessionIDs
        PROVE  Continues(s, m_allSessionMap[s], msgs, m_allSessionMap'[s], m_isStop)
    <3>1. \/ m_allSessionMap'[s] = m_allSessionMap[s]
          \/ m_allSessionMap'[s] = [m_allSessionMap[s] EXCEPT !.reconnect = curOperation.isAuto]
      BY <1>5 DEF ExecuteSetAutoConnect, ExecuteClientClose
    <3>2. m_allSessionMap[s] \in clientSessionData
      BY DEF ClientInv, TypeOK
    <3>3. /\ m_allSessionMap'[s].inMap = m_allSessionMap[s].inMap
          /\ m_allSessionMap'[s].connectState = m_allSessionMap[s].connectState
          /\ m_allSessionMap'[s].removeTag = m_allSessionMap[s].removeTag
          /\ m_allSessionMap'[s].closing = m_allSessionMap[s].closing
      BY <3>1, <3>2 DEF clientSessionData
    <3>4. ContinuesSilently(m_allSessionMap[s], m_allSessionMap'[s], m_isStop)
      BY <3>3, SameContinues
    <3> QED BY <2>2, <3>4, SilenceContinues
  <2> QED BY <2>1, <2>2, <2>3, <2>4, LoopStepTells DEF ClientInv
<1>6. CASE ExecuteRemoveSession
  <2> DEFINE s      == curOperation.sessionID
             tagged == [Target EXCEPT !.removeTag = TRUE]
             msgs   == <<Msg("REMOVE_SESSION", s, Target)>>
  <2>1. /\ Target \in clientSessionData /\ s \in SessionIDs /\ Executing("REMOVE_SESSION")
    BY <1>6, TargetType DEF ClientInv, ExecuteRemoveSession
  <2>2. /\ tagged \in clientSessionData /\ tagged.removeTag
        /\ tagged.connectState = Target.connectState /\ tagged.inMap = Target.inMap
        /\ tagged.closing = Target.closing
    BY <2>1 DEF clientSessionData
  <2>3. \/ Target.inMap /\ AnnounceNow(Target) /\ Executed(tagged, msgs)
        \/ Executed(ExecuteDisconnect(tagged), <<>>)
        \/ Executed(Target, <<>>)
    BY <1>6 DEF ExecuteRemoveSession, TargetMsg
  <2> HIDE DEF tagged
  <2>4. CASE Target.inMap /\ AnnounceNow(Target) /\ Executed(tagged, msgs)
    <3>1. \A w \in Words : LastWord(w, Target, m_isStop) => w \in {"failed", "down"}
      BY <2>4 DEF LastWord, AnnounceNow
    <3>2. LastWord(Told("REMOVE_SESSION"), tagged, m_isStop)
      BY <2>2, <2>4 DEF LastWord, Told, AnnounceNow
    <3>3. Continues(s, Target, msgs, tagged, m_isStop)
      <4>1. \A w \in Words : LastWord(w, Target, m_isStop) =>
               May(w, "REMOVE_SESSION", tagged, m_isStop)
        BY <3>1 DEF May
      <4> QED BY <2>1, <2>2, <2>4, <3>2, <4>1, OneContinues DEF NetThreadMsgType
    <3>4. msgs \in Seq(NetThreadMsg)
      BY <2>1, OneMessage DEF NetThreadMsgType
    <3>5. \A i \in DOMAIN msgs : msgs[i].sessionID = s
      BY DEF Msg
    <3> HIDE DEF msgs
    <3> QED BY <2>1, <2>4, <3>3, <3>4, <3>5, ExecutedTells
  <2>5. ContinuesSilently(Target, ExecuteDisconnect(tagged), m_isStop)
    BY <2>2, DisconnectKeeps, DisconnectCloses, SameContinues
  <2>6. ContinuesSilently(Target, Target, m_isStop)
    BY SameContinues
  <2> QED BY <2>1, <2>3, <2>4, <2>5, <2>6, ExecutedSilently
<1> QED BY <1>1, <1>2, <1>3, <1>4, <1>5, <1>6 DEF ExecuteOperation

(* The callbacks about one session keep to it ...                          *)
LEMMA CallbacksTell ==
    ASSUME ClientInv, TellInv, app # "gone", NEW t \in SessionIDs,
           \/ Reconnect(t) \/ HeartbeatLost(t) \/ OnSessionRecvData(t) \/ OnIllegalData(t)
           \/ OnIllegalHeart(t) \/ OnEof(t) \/ OnSessionClose(t)
           \/ \E outcome \in Outcomes : KernelConnect(t, outcome)
    PROVE  TellInv' /\ RemovingStays
<1> DEFINE d == m_allSessionMap[t]
<1>1. d \in clientSessionData /\ SocketInv(d)
  BY DEF ClientInv, TypeOK
<1>2. CASE Reconnect(t)
  <2>1. d.inMap /\ AnnounceNow(d) /\ Callback(t, Connecting(d), <<>>)
    BY <1>2 DEF Reconnect
  <2>2. ~d.removeTag /\ d.connectState = "DISCONNECT" /\ ~d.isOnline
    BY <1>1, <2>1 DEF AnnounceNow, SocketInv
  <2> HIDE DEF d
  <2>3. ContinuesSilently(d, Connecting(d), m_isStop)
    BY <1>1, <2>1, <2>2, StartContinues
  <2> QED BY <2>1, <2>3, CallbackSilently DEF d
<1>3. CASE HeartbeatLost(t) \/ OnIllegalData(t) \/ OnEof(t)
  <2>1. PICK data \in {ExecuteDisconnect(d), SocketDisconnect(d)} : Callback(t, data, <<>>)
    BY <1>3 DEF HeartbeatLost, OnIllegalData, OnEof
  <2> HIDE DEF d
  <2>2. ContinuesSilently(d, data, m_isStop)
    BY <1>1, DisconnectKeeps, DisconnectCloses, SameContinues
  <2> QED BY <2>1, <2>2, CallbackSilently DEF d
<1>4. CASE OnSessionRecvData(t)
  <2> DEFINE msgs == <<Msg("RECV_DATA", t, d)>>
  <2>1. Callback(t, d, msgs) /\ d.tcp = "open" /\ d.isOnline
    BY <1>4 DEF OnSessionRecvData, Reading
  <2>2. d.inMap /\ d.connectState \in {"CONNECT", "DISCONNECTING"} /\ ~d.closing
    BY <1>1, <2>1 DEF SocketInv, clientSessionData, ConnectState
  <2> HIDE DEF d
  <2>3. \A w \in Words : LastWord(w, d, m_isStop) => w \in Online
    BY <2>2 DEF LastWord
  <2>4. LastWord(Told("RECV_DATA"), d, m_isStop)
    BY <2>2 DEF LastWord, Told, Online, Contract!Online
  <2>5. Continues(t, d, msgs, d, m_isStop)
    <3>1. \A w \in Words : LastWord(w, d, m_isStop) => May(w, "RECV_DATA", d, m_isStop)
      BY <2>3 DEF May
    <3> QED BY <1>1, <2>4, <3>1, OneContinues DEF NetThreadMsgType
  <2>6. msgs \in Seq(NetThreadMsg)
    BY <1>1, OneMessage DEF NetThreadMsgType
  <2>7. \A i \in DOMAIN msgs : msgs[i].sessionID = t
    BY DEF Msg
  <2> HIDE DEF msgs
  <2> QED BY <2>1, <2>5, <2>6, <2>7, CallbackTells DEF d
<1>5. CASE OnIllegalHeart(t)
  <2> DEFINE msgs == <<>>
             op == Op("DISCONNECT", t)
  <2>1. op \in SessionOperation /\ \A s \in SessionIDs : ~IsDeletion(op, s)
    BY OperationTypes, NoDeletion DEF OperationType
  <2>2. /\ m_operationQue' = Append(m_operationQue, op)
        /\ UNCHANGED <<m_operationDispatchQue, m_msgDispatchQue, m_msgQue, m_allSessionMap,
                       app, told, m_isStop>>
    BY <1>5 DEF OnIllegalHeart, PushOperation, appVars, loopVars
  <2> HIDE DEF op
  <2>3. Operations' = Append(Operations, op)
    BY <2>1, <2>2, ConcatAppend DEF ClientInv, TypeOK, Operations
  <2>4. msgs \in Seq(NetThreadMsg) /\ DOMAIN msgs = {} /\ Messages' = Messages \o msgs
    BY <2>2, EmptyMessages, StreamTypes, ConcatEmptySeq DEF Messages, ClientInv
  <2> HIDE DEF msgs
  <2>5. \A s \in SessionIDs : Continues(s, m_allSessionMap[s], msgs, m_allSessionMap'[s], m_isStop)
    BY <2>2, <2>4, ContinuesNothing
  <2> QED BY <2>1, <2>2, <2>3, <2>4, <2>5, LoopStepTells DEF ClientInv
<1>6. CASE OnSessionClose(t)
  <2> DEFINE d2 == Closed(d)
             u == <<Msg("DIS_CONNECT", t, d)>>
             v == <<Msg("REMOVE_SESSION", t, d)>>
  <2>1. d.closing /\ Callback(t, d2, CloseMsgs(t, d))
    BY <1>6 DEF OnSessionClose
  <2>2. d.inMap /\ d.connectState \in {"CONNECT", "DISCONNECTING"}
    BY <1>1, <2>1 DEF SocketInv, clientSessionData, ConnectState
  <2>3. /\ d2 \in clientSessionData /\ d2.inMap /\ d2.connectState = "DISCONNECT"
        /\ d2.removeTag = d.removeTag
    BY <1>1, <2>2 DEF Closed, OnSocketClose, clientSessionData, ConnectState
  <2> HIDE DEF d, d2
  <2>4. Continues(t, d, u, d2, m_isStop)
    <3>1. \A w \in Words : LastWord(w, d, m_isStop) => May(w, "DIS_CONNECT", d2, m_isStop)
      BY <2>2, <2>3 DEF May, LastWord
    <3>2. LastWord(Told("DIS_CONNECT"), d2, m_isStop)
      BY <2>3 DEF LastWord, Told
    <3> QED BY <1>1, <2>3, <3>1, <3>2, OneContinues DEF NetThreadMsgType
  <2>5. u \in Seq(NetThreadMsg) /\ v \in Seq(NetThreadMsg)
    BY <1>1, OneMessage DEF NetThreadMsgType
  <2>6. \A i \in DOMAIN u : u[i].sessionID = t
    BY DEF Msg
  <2>7. CASE ~d.removeTag
    <3>1. CloseMsgs(t, d) = u
      BY <2>5, <2>7, ConcatEmptySeq DEF CloseMsgs
    <3> HIDE DEF u
    <3> QED BY <2>1, <2>4, <2>5, <2>6, <3>1, CallbackTells DEF d
  <2>8. CASE d.removeTag
    <3>1. CloseMsgs(t, d) = u \o v
      BY <2>8 DEF CloseMsgs
    <3>2. u \o v \in Seq(NetThreadMsg) /\ \A i \in DOMAIN (u \o v) : (u \o v)[i].sessionID = t
      <4>1. /\ u \in Seq(NetThreadMsg) /\ v \in Seq(NetThreadMsg) /\ Len(u) = 1 /\ Len(v) = 1
            /\ u[1].sessionID = t /\ v[1].sessionID = t
        BY <2>5 DEF Msg
      <4> HIDE DEF u, v
      <4>2. /\ u \o v \in Seq(NetThreadMsg) /\ Len(u \o v) = Len(u) + Len(v)
            /\ \A i \in 1 .. Len(u) + Len(v) :
                  (u \o v)[i] = IF i <= Len(u) THEN u[i] ELSE v[i - Len(u)]
        BY <4>1, ConcatProperties
      <4>3. DOMAIN (u \o v) = 1 .. Len(u \o v)
        BY <4>2, LenProperties
      <4>4. Len(u \o v) = 2 /\ (u \o v)[1] = u[1] /\ (u \o v)[2] = v[1]
        BY <4>1, <4>2
      <4> QED BY <4>1, <4>2, <4>3, <4>4
    <3>3. Leads("down", t, v, d2, m_isStop, "removed")
      <4> DEFINE m == Msg("REMOVE_SESSION", t, d)
      <4>1. m \in NetThreadMsg /\ m.sessionID = t /\ m.type = "REMOVE_SESSION"
        BY <1>1, MessageTypes DEF Msg, NetThreadMsgType
      <4>2. Told("REMOVE_SESSION") = "removed" /\ "removed" \in Words /\ "down" \in Words
        BY DEF Told, Words
      <4>3. May("down", "REMOVE_SESSION", d2, m_isStop)
        BY DEF May
      <4> HIDE DEF m
      <4>4. Leads("down", t, <<m>>, d2, m_isStop, "removed")
        BY <4>1, <4>2, <4>3, LeadsByOne
      <4> QED BY <4>4 DEF m
    <3>4. ASSUME NEW w \in Words, LastWord(w, d, m_isStop)
          PROVE  Leads(w, t, u, d2, m_isStop, "down")
      <4> DEFINE m == Msg("DIS_CONNECT", t, d)
      <4>1. m \in NetThreadMsg /\ m.sessionID = t /\ m.type = "DIS_CONNECT"
        BY <1>1, MessageTypes DEF Msg, NetThreadMsgType
      <4>2. Told("DIS_CONNECT") = "down" /\ "down" \in Words
        BY DEF Told, Words
      <4>3. May(w, "DIS_CONNECT", d2, m_isStop)
        BY <2>2, <2>3, <3>4 DEF May, LastWord
      <4> HIDE DEF m
      <4>4. Leads(w, t, <<m>>, d2, m_isStop, "down")
        BY <4>1, <4>2, <4>3, LeadsByOne
      <4> QED BY <4>4 DEF m
    <3>5. LastWord("removed", d2, m_isStop) /\ "removed" \in Words
      BY <2>3, <2>8 DEF LastWord, Words
    <3> HIDE DEF u, v
    <3>6. Continues(t, d, u \o v, d2, m_isStop)
      BY <2>3, <2>5, <3>3, <3>4, <3>5, LeadsConcat DEF Continues
    <3> QED BY <2>1, <3>1, <3>2, <3>6, CallbackTells DEF d
  <2> QED BY <2>7, <2>8
<1>7. ASSUME NEW outcome \in Outcomes, KernelConnect(t, outcome) PROVE TellInv' /\ RemovingStays
  <2> DEFINE msgs == <<>>
  <2>1. /\ Operations' = Operations /\ UNCHANGED <<app, told, m_isStop>>
        /\ m_allSessionMap' = [m_allSessionMap EXCEPT ![t].tcp = outcome]
        /\ Messages' = Messages
    BY <1>7 DEF KernelConnect, Messages, Operations, appVars
  <2>2. msgs \in Seq(NetThreadMsg) /\ DOMAIN msgs = {} /\ Messages' = Messages \o msgs
    BY <2>1, EmptyMessages, StreamTypes, ConcatEmptySeq DEF ClientInv
  <2> HIDE DEF msgs
  <2>3. ASSUME NEW s \in SessionIDs
        PROVE  Continues(s, m_allSessionMap[s], msgs, m_allSessionMap'[s], m_isStop)
    <3>1. /\ m_allSessionMap[s] \in clientSessionData
          /\ m_allSessionMap \in [SessionIDs -> clientSessionData]
      BY DEF ClientInv, TypeOK
    <3>2. \/ m_allSessionMap'[s] = m_allSessionMap[s]
          \/ m_allSessionMap'[s] = [m_allSessionMap[s] EXCEPT !.tcp = outcome]
      BY <2>1, <3>1
    <3>3. /\ m_allSessionMap'[s].inMap = m_allSessionMap[s].inMap
          /\ m_allSessionMap'[s].connectState = m_allSessionMap[s].connectState
          /\ m_allSessionMap'[s].removeTag = m_allSessionMap[s].removeTag
          /\ m_allSessionMap'[s].closing = m_allSessionMap[s].closing
      BY <3>1, <3>2 DEF clientSessionData
    <3>4. ContinuesSilently(m_allSessionMap[s], m_allSessionMap'[s], m_isStop)
      BY <3>3, SameContinues
    <3> QED BY <2>2, <3>4, SilenceContinues
  <2> QED BY <2>1, <2>2, <2>3, LoopStepTells DEF ClientInv
<1> QED BY <1>2, <1>3, <1>4, <1>5, <1>6, <1>7

(* The end of an attempt: what the application hears, if it is to hear of  *)
(* it, comes after a word that is not of a session that is up.             *)
LEMMA ConnectTells ==
    ASSUME ClientInv, TellInv, app # "gone", NEW t \in SessionIDs,
           NEW readStarted \in BOOLEAN, OnSocketConnect(t, readStarted)
    PROVE  TellInv' /\ RemovingStays
<1> DEFINE d == m_allSessionMap[t]
           status == IF d.tcp = "connected" /\ ~readStarted
                     THEN 0 ELSE ConnectStatus(UvStatus(d.tcp))
           isSuc == status = 1
           after == [d EXCEPT !.tcp = IF isSuc THEN "open" ELSE "idle", !.isOnline = isSuc,
                              !.connectState = IF isSuc THEN "CONNECT" ELSE "DISCONNECT"]
           msgs == <<Msg(ConnectMsg(status), t, d)>>
<1>1. d \in clientSessionData /\ SocketInv(d) /\ d.tcp \in {"connected", "refused", "timedout"}
  BY DEF ClientInv, TypeOK, OnSocketConnect
<1>2. d.connectState = "CONNECTING" /\ d.inMap /\ ~d.closing
  BY <1>1 DEF SocketInv, clientSessionData, ConnectState
<1>3. \/ Callback(t, after, msgs)
      \/ /\ isSuc /\ (m_clientStage # "START" \/ d.removeTag)
         /\ Callback(t, ExecuteDisconnect(after), <<>>)
  BY DEF OnSocketConnect
<1>4. m_clientStage # "START" => m_isStop
  BY DEF ClientInv, StageInv, CloseOrder
<1>5. isSuc \in BOOLEAN /\ status \in {0, 1, 2}
  BY DEF ConnectStatus
<1>6. /\ ConnectMsg(status) \in NetThreadMsgType \ {"EXIT_LOOP"}
      /\ ConnectMsg(status) \in {"CONNECT", "CONNECT_FAIL", "CONNECT_TIMOUT"}
      /\ isSuc => Told(ConnectMsg(status)) = "up"
      /\ ~isSuc => Told(ConnectMsg(status)) = "failed"
  BY <1>5 DEF ConnectMsg, NetThreadMsgType, Told
<1> HIDE DEF isSuc, status
<1>7. /\ after \in clientSessionData /\ after.removeTag = d.removeTag /\ after.inMap = d.inMap
      /\ after.isOnline = isSuc
      /\ after.connectState = IF isSuc THEN "CONNECT" ELSE "DISCONNECT"
      /\ after.tcp = IF isSuc THEN "open" ELSE "idle"
  BY <1>1, <1>5 DEF clientSessionData, ConnectState, TcpHandle
<1> HIDE DEF after
<1>8. \A w \in Words : LastWord(w, d, m_isStop) => w \notin Online
  BY <1>2 DEF LastWord
<1>9. CASE Callback(t, after, msgs)
  <2>1. LastWord(Told(ConnectMsg(status)), after, m_isStop)
    BY <1>2, <1>5, <1>6, <1>7 DEF LastWord, Online, Contract!Online
  <2>2. \A w \in Words : LastWord(w, d, m_isStop) => May(w, ConnectMsg(status), after, m_isStop)
    BY <1>6, <1>8 DEF May
  <2>3. Continues(t, d, msgs, after, m_isStop)
    BY <1>1, <1>6, <1>7, <2>1, <2>2, OneContinues
  <2>4. msgs \in Seq(NetThreadMsg)
    BY <1>1, <1>6, OneMessage
  <2>5. \A i \in DOMAIN msgs : msgs[i].sessionID = t
    BY DEF Msg
  <2> HIDE DEF msgs
  <2> QED BY <1>9, <2>3, <2>4, <2>5, CallbackTells
<1>10. CASE /\ isSuc /\ (m_clientStage # "START" \/ d.removeTag)
            /\ Callback(t, ExecuteDisconnect(after), <<>>)
  <2> DEFINE d2 == ExecuteDisconnect(after)
  <2>1. /\ d2.inMap = d.inMap /\ d2.removeTag = d.removeTag
        /\ d2.connectState = "CONNECT"
    BY <1>7, <1>10, DisconnectKeeps
  <2>2. d2.closing
    BY <1>7, <1>10 DEF ExecuteDisconnect, SocketDisconnect, clientSessionData
  <2> HIDE DEF d2, d
  <2>3. ContinuesSilently(d, d2, m_isStop)
    BY <1>2, <1>4, <1>10, <2>1, <2>2 DEF ContinuesSilently, LastWord
  <2> QED BY <1>10, <2>3, CallbackSilently DEF d, d2
<1> QED BY <1>3, <1>9, <1>10

(* The sweep removes what is down, and closes what is up; the rest of the  *)
(* end says nothing of a session.                                          *)
LEMMA LoopEndTells ==
    ASSUME ClientInv, TellInv, app # "gone", ClearSessions \/ WaitExit \/ Run
    PROVE  TellInv' /\ RemovingStays
<1>1. CASE ClearSessions
  <2>1. PICK order \in SetToSeqs(ToRemove) :
           m_msgQue' = m_msgQue \o [i \in DOMAIN order |->
                                      Msg("REMOVE_SESSION", order[i], m_allSessionMap[order[i]])]
    BY <1>1 DEF ClearSessions
  <2> DEFINE msgs == [i \in DOMAIN order |->
                        Msg("REMOVE_SESSION", order[i], m_allSessionMap[order[i]])]
  <2>2. msgs \in Seq(NetThreadMsg)
    BY SweepMessages DEF ClientInv
  <2>3. /\ IsFiniteSet(ToRemove) /\ Cardinality(ToRemove) \in Nat
        /\ DOMAIN order = 1 .. Cardinality(ToRemove)
        /\ \A i \in DOMAIN order : order[i] \in ToRemove
        /\ \A i, j \in DOMAIN order : order[i] = order[j] => i = j
    <3>1. IsFiniteSet(ToRemove)
      BY SessionAssumption, FS_Subset DEF ToRemove
    <3> QED BY <3>1, FS_CardinalityType DEF SetToSeqs, IsInjective
  <2>4. \A i \in DOMAIN msgs : msgs[i].sessionID = order[i] /\ msgs[i].type = "REMOVE_SESSION"
    BY DEF Msg
  <2>5. DOMAIN msgs = DOMAIN order
    OBVIOUS
  <2>6. Messages' = Messages \o msgs /\ Operations' = Operations
           /\ UNCHANGED <<app, told, m_isStop>>
    BY <1>1, <2>1, <2>2, SayMessages DEF ClearSessions, appVars, ClientInv, Operations
  <2> HIDE DEF msgs
  <2>7. ASSUME NEW s \in SessionIDs
        PROVE  Continues(s, m_allSessionMap[s], msgs, m_allSessionMap'[s], m_isStop)
    <3> DEFINE d == m_allSessionMap[s]
               tagged == [d EXCEPT !.removeTag = TRUE]
               d2 == m_allSessionMap'[s]
    <3>1. d \in clientSessionData
      BY DEF ClientInv, TypeOK
    <3>2. /\ tagged \in clientSessionData /\ tagged.removeTag /\ tagged.inMap = d.inMap
          /\ tagged.connectState = d.connectState /\ tagged.closing = d.closing
      BY <3>1 DEF clientSessionData
    <3>3. d2 = IF s \in ToClose THEN ExecuteDisconnect(tagged)
               ELSE IF s \in ToRemove THEN tagged ELSE d
      BY <1>1 DEF ClearSessions
    <3>4. s \in ToRemove => d.inMap /\ AnnounceNow(d)
      BY DEF ToRemove
    <3> HIDE DEF d, tagged, d2
    <3>5. CASE s \in ToRemove /\ s \notin ToClose
      <4>1. PICK k \in DOMAIN order : order[k] = s
        BY <3>5, SweepAnnounces
      <4>2. k \in DOMAIN msgs /\ msgs[k].sessionID = s /\ msgs[k].type = "REMOVE_SESSION"
        BY <2>4, <2>5, <4>1
      <4>3. \A i \in DOMAIN msgs : msgs[i].sessionID = s => i = k
        BY <2>3, <2>4, <2>5, <4>1
      <4>4. ASSUME NEW w \in Words, LastWord(w, d, m_isStop)
            PROVE  Leads(w, s, msgs, d2, m_isStop, "removed")
        <5>1. May(w, "REMOVE_SESSION", d2, m_isStop)
          BY <3>4, <3>5, <4>4 DEF LastWord, AnnounceNow, May
        <5>2. Told("REMOVE_SESSION") = "removed" /\ "removed" \in Words
          BY DEF Told, Words
        <5>3. Leads(w, s, msgs, d2, m_isStop, Told(msgs[k].type))
          BY <2>2, <4>2, <4>3, <5>1, <5>2, LeadsByOneOf
        <5> QED BY <4>2, <5>2, <5>3
      <4>5. LastWord("removed", d2, m_isStop) /\ "removed" \in Words
        BY <3>2, <3>3, <3>4, <3>5 DEF LastWord, Words, AnnounceNow
      <4>6. Continues(s, d, msgs, d2, m_isStop)
        BY <3>2, <3>3, <3>5, <4>4, <4>5 DEF Continues
      <4> QED BY <4>6 DEF d, d2
    <3>6. CASE s \notin ToRemove \/ s \in ToClose
      <4>1. s \notin ToRemove
        BY <3>6 DEF ToClose, ToRemove, AnnounceNow
      <4>2. \A i \in DOMAIN msgs : msgs[i].sessionID # s
        BY <2>3, <2>4, <2>5, <4>1
      <4>3. ContinuesSilently(d, d2, m_isStop)
        <5>1. CASE s \in ToClose
          BY <3>2, <3>3, <5>1, DisconnectKeeps, DisconnectCloses, SameContinues
        <5>2. CASE s \notin ToClose
          BY <3>3, <4>1, <5>2, SameContinues
        <5> QED BY <5>1, <5>2
      <4>4. Continues(s, d, msgs, d2, m_isStop)
        BY <2>2, <4>2, <4>3, SilenceContinues
      <4> QED BY <4>4 DEF d, d2
    <3> QED BY <3>5, <3>6
  <2> QED BY <2>2, <2>6, <2>7, LoopStepTells DEF ClientInv
<1>2. CASE WaitExit \/ RunReturns
  <2>1. /\ Messages' = Messages /\ Operations' = Operations
        /\ UNCHANGED <<m_allSessionMap, told, app, m_isStop>>
    BY <1>2 DEF WaitExit, RunReturns, Messages, Operations, appVars
  <2> QED BY <2>1 DEF TellInv, RemovingStays, Removing, InMap
<1>3. CASE PushExitLoop
  <2> DEFINE msgs == <<ExitLoop>>
  <2>1. msgs \in Seq(NetThreadMsg) /\ ExitLoop \in NetThreadMsg
    BY MessageTypes
  <2>2. m_msgQue' = m_msgQue \o msgs
    BY <1>3, <2>1, AppendIsConcat DEF PushExitLoop, ClientInv, TypeOK
  <2>3. \A s \in SessionIDs : \A i \in DOMAIN msgs : msgs[i].sessionID # s
    BY SessionAssumption DEF ExitLoop
  <2> HIDE DEF msgs
  <2>4. Messages' = Messages \o msgs /\ Operations' = Operations
           /\ UNCHANGED <<app, told, m_isStop, m_allSessionMap>>
    BY <1>3, <2>1, <2>2, SayMessages DEF PushExitLoop, appVars, ClientInv, Operations
  <2>5. \A s \in SessionIDs : Continues(s, m_allSessionMap[s], msgs, m_allSessionMap'[s], m_isStop)
    BY <2>1, <2>3, <2>4, ContinuesNothing
  <2> QED BY <2>1, <2>4, <2>5, LoopStepTells DEF ClientInv
<1> QED BY <1>1, <1>2, <1>3 DEF Run

(* A deletion is executed when the application was told of the removal     *)
(* last and nothing of the session is queued.                              *)
LEMMA DeletionTells ==
    ASSUME ClientInv, TellInv, app # "gone", ExecuteDeleteSession
    PROVE  /\ TellInv'
           /\ told[curOperation.sessionID] = "removed"
           /\ \A s \in SessionIDs :
                 IF s = curOperation.sessionID THEN ~Removing(s)' ELSE Removing(s)' = Removing(s)
<1> DEFINE t == curOperation.sessionID
<1>1. t \in SessionIDs /\ Executing("DELETE_SESSION") /\ Executed(Deleted(Target), <<>>)
  BY TargetType DEF ExecuteDeleteSession, ClientInv
<1>2. /\ Operations # <<>> /\ Head(Operations) = curOperation /\ Operations' = Tail(Operations)
  BY <1>1, ExecutingStream DEF ClientInv
<1>3. Messages \in Seq(NetThreadMsg) /\ Operations \in Seq(SessionOperation)
  BY StreamTypes DEF ClientInv
<1>4. 1 \in DOMAIN Operations /\ IsDeletion(Operations[1], t)
  <2>1. 1 \in DOMAIN Operations /\ Head(Operations) = Operations[1]
    BY <1>2, <1>3, TailIndex
  <2> QED BY <1>1, <1>2, <2>1 DEF IsDeletion, Executing
<1>5. told[t] = "removed"
  BY <1>1, <1>4 DEF TellInv, WordInv
<1>6. \A i \in DOMAIN Messages : Messages[i].sessionID # t
  BY <1>1, <1>4 DEF ClientInv, SessionInv
<1>7. /\ m_allSessionMap'[t] = Deleted(m_allSessionMap[t])
      /\ \A s \in SessionIDs \ {t} : m_allSessionMap'[s] = m_allSessionMap[s]
  BY <1>1 DEF Executed, Target, ClientInv, TypeOK
<1>8. Leaving(m_allSessionMap[t])
  BY <1>1, <1>4 DEF ClientInv, SessionInv
<1>9. m_allSessionMap'[t] = NoEntry(m_allSessionMap[t].incarnation)
  BY <1>7, <1>8 DEF Deleted, Leaving
<1>10. /\ ~m_allSessionMap'[t].inMap /\ ~m_allSessionMap'[t].removeTag
       /\ m_allSessionMap'[t].connectState = "DISCONNECT"
  BY <1>9 DEF NoEntry
<1>11. Messages' = Messages /\ UNCHANGED <<told, app, m_isStop>>
  <2>1. m_msgQue' = m_msgQue \o <<>> /\ UNCHANGED appVars
    BY <1>1 DEF Executed, Executing
  <2>2. m_msgQue' = m_msgQue
    BY <2>1, ConcatEmptySeq DEF ClientInv, TypeOK
  <2> QED BY <2>1, <2>2 DEF appVars, Messages
<1>12. ASSUME NEW s \in SessionIDs
       PROVE  WordInv(s, Messages, Operations', m_allSessionMap'[s], told[s], m_isStop)
  <2>1. \A i \in DOMAIN Operations' : IsDeletion(Operations'[i], s) => told[s] = "removed"
    <3>1. \A i \in DOMAIN Operations' : i + 1 \in DOMAIN Operations
             /\ Operations'[i] = Operations[i + 1]
      BY <1>2, <1>3, TailIndex
    <3> QED BY <3>1 DEF TellInv, WordInv
  <2>2. CASE s = t
    <3>1. "removed" \in Words /\ LastWord("removed", m_allSessionMap'[s], m_isStop)
      BY <1>10, <2>2 DEF LastWord, Words
    <3>2. Leads(told[s], s, Messages, m_allSessionMap'[s], m_isStop, "removed")
      BY <1>3, <1>5, <1>6, <2>2, <3>1, LeadsNowhere
    <3> QED BY <2>1, <3>1, <3>2 DEF WordInv
  <2>3. CASE s # t
    BY <1>7, <2>1, <2>3 DEF WordInv, TellInv
  <2> QED BY <2>2, <2>3
<1>13. TellInv'
  BY <1>11, <1>12 DEF TellInv
<1> QED BY <1>5, <1>7, <1>10, <1>13 DEF Removing, InMap

-----------------------------------------------------------------------------
(* The contract: steps of the application's thread.                        *)

LEMMA InitTells == Init => TellInv
<1> SUFFICES ASSUME Init PROVE TellInv
  OBVIOUS
<1> DEFINE M == <<>>
<1>1. M \in Seq(NetThreadMsg) /\ DOMAIN M = {}
  BY EmptyMessages
<1>2. Messages = M
  <2>1. <<>> \in Seq(NetThreadMsg)
    BY EmptySeq
  <2> QED BY <2>1, ConcatEmptySeq DEF Init, Messages
<1>3. DOMAIN Operations = {}
  <2>1. <<>> \in Seq(SessionOperation)
    BY EmptySeq
  <2>2. Operations = <<>>
    BY <2>1, ConcatEmptySeq DEF Init, Operations
  <2> QED BY <2>2
<1> HIDE DEF M
<1>4. ASSUME NEW s \in SessionIDs
      PROVE  WordInv(s, Messages, Operations, m_allSessionMap[s], told[s], m_isStop)
  <2>1. told[s] = "none" /\ m_allSessionMap[s] = NoEntry(0)
    BY DEF Init
  <2>2. "none" \in Words /\ LastWord("none", m_allSessionMap[s], m_isStop)
    BY <2>1 DEF LastWord, Words, NoEntry
  <2>3. Leads(told[s], s, Messages, m_allSessionMap[s], m_isStop, "none")
    BY <1>1, <1>2, <2>1, <2>2, LeadsNowhere
  <2> QED BY <1>3, <2>2, <2>3 DEF WordInv
<1> QED BY <1>4 DEF TellInv

(* A call says nothing and changes no entry; closeClient() and the         *)
(* destructor only allow more.                                             *)
LEMMA CallTells ==
    ASSUME ClientInv, TypeOK', TellInv, app # "gone",
           UNCHANGED <<told, m_allSessionMap, Messages>>,
           m_isStop => m_isStop',
           \/ Operations' = Operations
           \/ \E op \in SessionOperation : Operations' = Append(Operations, op) /\
                                           \A s \in SessionIDs : ~IsDeletion(op, s)
    PROVE  TellInv'
<1>1. ASSUME NEW s \in SessionIDs
      PROVE  WordInv(s, Messages, Operations', m_allSessionMap[s], told[s], m_isStop')
  <2>1. PICK w \in Words : /\ Leads(told[s], s, Messages, m_allSessionMap[s], m_isStop, w)
                           /\ LastWord(w, m_allSessionMap[s], m_isStop)
    BY DEF TellInv, WordInv
  <2>2. Leads(told[s], s, Messages, m_allSessionMap[s], m_isStop', w)
    BY <2>1, LeadsGrows DEF ClientInv, TypeOK
  <2>3. LastWord(w, m_allSessionMap[s], m_isStop')
    BY <2>1 DEF LastWord
  <2>4. \A i \in DOMAIN Operations' : IsDeletion(Operations'[i], s) =>
           \E j \in DOMAIN Operations : IsDeletion(Operations[j], s)
    <3>1. CASE Operations' = Operations
      BY <3>1
    <3>2. ASSUME NEW op \in SessionOperation, Operations' = Append(Operations, op),
                 ~IsDeletion(op, s),
                 NEW i \in DOMAIN Operations', IsDeletion(Operations'[i], s)
          PROVE  i \in DOMAIN Operations /\ Operations'[i] = Operations[i]
      <4> DEFINE n == Len(Operations)
      <4>1. /\ DOMAIN Operations = 1 .. n /\ n \in Nat /\ DOMAIN Operations' = 1 .. n + 1
            /\ Operations'[n + 1] = op
            /\ \A k \in DOMAIN Operations : Operations'[k] = Operations[k]
        BY <3>2, StreamTypes, AppendIndex DEF ClientInv
      <4>2. n \in Nat /\ i \in 1 .. n + 1 /\ i # n + 1
        BY <3>2, <4>1
      <4> HIDE DEF n
      <4>3. i \in 1 .. n
        BY <4>2
      <4> QED BY <4>1, <4>3
    <3> QED BY <3>1, <3>2
  <2> QED BY <2>1, <2>2, <2>3, <2>4 DEF TellInv, WordInv
<1> QED BY <1>1 DEF TellInv

(* An API call tells nothing; closeClient() allows more.                   *)
LEMMA ApiCallTells ==
    ASSUME ClientInv, TypeOK', TellInv, ApiCall
    PROVE  /\ TellInv'
           /\ app # "gone" /\ app' # "gone" /\ (m_isStop => m_isStop')
           /\ UNCHANGED <<told, closed, m_allSessionMap>>
<1>1. /\ UNCHANGED <<m_allSessionMap, m_msgDispatchQue, m_msgQue, m_operationDispatchQue,
                     told, closed>>
      /\ app = "polling" /\ app' # "gone" /\ (m_isStop => m_isStop')
  BY DEF ApiCall, Connect, Disconnect, RemoveSession, Send, SetAutoReconnect, Accepting,
     SetAutoReconnectBySessionID, Call, CloseClient, Delete, loopVars
<1>2. \/ m_operationQue' = m_operationQue
      \/ \E op \in SessionOperation : /\ m_operationQue' = Append(m_operationQue, op)
                                      /\ \A s \in SessionIDs : ~IsDeletion(op, s)
  BY OperationTypes, NoDeletion
     DEF ApiCall, Connect, Disconnect, RemoveSession, Send, SetAutoReconnect, OperationType,
     SetAutoReconnectBySessionID, Call, CloseClient, Delete, PushOperation
<1>3. m_operationDispatchQue \in Seq(SessionOperation) /\ m_operationQue \in Seq(SessionOperation)
  BY DEF ClientInv, TypeOK
<1>4. \/ Operations' = Operations
      \/ \E op \in SessionOperation : Operations' = Append(Operations, op) /\
                                      \A s \in SessionIDs : ~IsDeletion(op, s)
  <2>1. CASE m_operationQue' = m_operationQue
    BY <1>1, <2>1 DEF Operations
  <2>2. ASSUME NEW op \in SessionOperation, m_operationQue' = Append(m_operationQue, op)
        PROVE  Operations' = Append(Operations, op)
    BY <1>1, <1>3, <2>2, ConcatAppend DEF Operations
  <2> QED BY <1>2, <2>1, <2>2
<1>5. Messages' = Messages
  BY <1>1 DEF Messages
<1> QED BY <1>1, <1>4, <1>5, CallTells

(* The next message comes when it may. *)
LEMMA DispatchTells ==
    ASSUME ClientInv, TypeOK', TellInv, DispatchMsg
    PROVE  /\ TellInv'
           /\ \A s \in SessionIDs :
                 Head(m_msgDispatchQue).sessionID = s =>
                    May(told[s], Head(m_msgDispatchQue).type, m_allSessionMap[s], m_isStop)
<1> DEFINE m == Head(m_msgDispatchQue)
<1>1. Messages \in Seq(NetThreadMsg) /\ Operations \in Seq(SessionOperation)
  BY StreamTypes DEF ClientInv
<1>2. Messages # <<>> /\ Head(Messages) = m /\ Messages' = Tail(Messages)
  <2>1. m_msgDispatchQue \in Seq(NetThreadMsg) /\ m_msgQue \in Seq(NetThreadMsg)
    BY DEF ClientInv, TypeOK
  <2> QED BY <2>1, HeadTailConcat DEF DispatchMsg, Messages
<1>3. m \in NetThreadMsg /\ 1 \in DOMAIN Messages /\ Messages[1] = m
  BY <1>1, <1>2, TailIndex
<1>4. app = "polling" /\ UNCHANGED <<app, m_isStop, m_allSessionMap>>
  BY DEF DispatchMsg, loopVars
<1>5. ASSUME NEW s \in SessionIDs, m.sessionID = s
      PROVE  m.type # "EXIT_LOOP" /\ told'[s] = Told(m.type)
  BY <1>3, <1>5, SessionAssumption DEF NetThreadMsg, DispatchMsg, ClientInv, TypeOK
<1>6. ASSUME NEW s \in SessionIDs, m.sessionID # s
      PROVE  told'[s] = told[s]
  <2>1. CASE m.type = "EXIT_LOOP"
    BY <2>1 DEF DispatchMsg
  <2>2. CASE m.type # "EXIT_LOOP"
    BY <1>3, <1>6, <2>2 DEF DispatchMsg, ClientInv, TypeOK
  <2> QED BY <2>1, <2>2
<1>7. /\ m.type # "REMOVE_SESSION" => Operations' = Operations
      /\ m.type = "REMOVE_SESSION" =>
            /\ Op("DELETE_SESSION", m.sessionID) \in SessionOperation
            /\ Operations' = Append(Operations, Op("DELETE_SESSION", m.sessionID))
  <2>1. m.type = "REMOVE_SESSION" => Op("DELETE_SESSION", m.sessionID) \in SessionOperation
    <3>1. m.type = "REMOVE_SESSION" => m.sessionID \in SessionIDs
      BY <1>3 DEF NetThreadMsg
    <3> QED BY <3>1, OperationTypes DEF OperationType
  <2>2. m_operationDispatchQue \in Seq(SessionOperation) /\ m_operationQue \in Seq(SessionOperation)
    BY DEF ClientInv, TypeOK
  <2>3. m_operationDispatchQue' = m_operationDispatchQue
    BY DEF DispatchMsg, loopVars
  <2>4. CASE m.type = "REMOVE_SESSION"
    <3>1. m_operationQue' = Append(m_operationQue, Op("DELETE_SESSION", m.sessionID))
      BY <2>4 DEF DispatchMsg, PushOperation
    <3> QED BY <2>1, <2>2, <2>3, <2>4, <3>1, ConcatAppend DEF Operations
  <2>5. CASE m.type # "REMOVE_SESSION"
    BY <2>3, <2>5 DEF DispatchMsg, Operations
  <2> QED BY <2>4, <2>5, <2>1
<1> HIDE DEF m
<1>8. ASSUME NEW s \in SessionIDs
      PROVE  /\ m.sessionID = s => May(told[s], m.type, m_allSessionMap[s], m_isStop)
             /\ WordInv(s, Messages', Operations', m_allSessionMap[s], told'[s], m_isStop)
  <2> DEFINE d == m_allSessionMap[s]
  <2>1. PICK w \in Words : Leads(told[s], s, Messages, d, m_isStop, w) /\ LastWord(w, d, m_isStop)
    BY <1>4 DEF TellInv, WordInv
  <2>2. IF m.sessionID = s
        THEN /\ May(told[s], m.type, d, m_isStop)
             /\ Leads(Told(m.type), s, Messages', d, m_isStop, w)
        ELSE Leads(told[s], s, Messages', d, m_isStop, w)
    <3> HIDE DEF d
    <3> QED BY <1>1, <1>2, <2>1, LeadsTail
  <2>3. Leads(told'[s], s, Messages', d, m_isStop, w)
    BY <1>5, <1>6, <2>2
  <2>4. ASSUME NEW i \in DOMAIN Operations', IsDeletion(Operations'[i], s)
        PROVE  told'[s] = "removed"
    <3>1. ASSUME NEW j \in DOMAIN Operations, IsDeletion(Operations[j], s)
          PROVE  told'[s] = "removed"
      <4>1. told[s] = "removed"
        BY <1>4, <3>1 DEF TellInv, WordInv
      <4>2. m.sessionID # s
        BY <1>3, <3>1 DEF ClientInv, SessionInv
      <4> QED BY <1>6, <4>1, <4>2
    <3>2. CASE m.type # "REMOVE_SESSION"
      BY <1>7, <2>4, <3>1, <3>2
    <3>3. CASE m.type = "REMOVE_SESSION"
      <4> DEFINE n == Len(Operations)
                 op == Op("DELETE_SESSION", m.sessionID)
      <4>1. /\ DOMAIN Operations = 1 .. n /\ n \in Nat /\ DOMAIN Operations' = 1 .. n + 1
            /\ Operations'[n + 1] = op
            /\ \A k \in DOMAIN Operations : Operations'[k] = Operations[k]
        BY <1>1, <1>7, <3>3, AppendIndex
      <4>2. CASE i = n + 1
        <5>1. m.sessionID = s
          BY <2>4, <4>1, <4>2 DEF IsDeletion, Op
        <5> QED BY <1>5, <3>3, <5>1 DEF Told
      <4>3. CASE i # n + 1
        <5>1. n \in Nat /\ i \in 1 .. n + 1 /\ i # n + 1
          BY <2>4, <4>1, <4>3
        <5> HIDE DEF n, op
        <5>2. i \in 1 .. n
          BY <5>1
        <5>3. i \in DOMAIN Operations /\ IsDeletion(Operations[i], s)
          BY <2>4, <4>1, <5>2
        <5> QED BY <3>1, <5>3
      <4> QED BY <4>2, <4>3
    <3> QED BY <3>2, <3>3
  <2> QED BY <2>1, <2>2, <2>3, <2>4 DEF WordInv
<1>9. TellInv'
  BY <1>4, <1>8 DEF TellInv
<1> QED BY <1>8, <1>9 DEF m

-----------------------------------------------------------------------------
(* The contract: every step is one of its steps, or a stutter.             *)

(* The threads' steps that tell the application nothing *)
LEMMA SilentStep ==
    ASSUME RemovingStays, UNCHANGED <<told, closed>>, app # "gone", app' # "gone",
           m_isStop' = m_isStop
    PROVE  [Contract!Next]_(Contract!vars)
<1> DEFINE old == {s \in SessionIDs : InMap(s) /\ m_allSessionMap[s].removeTag}
           new == {s \in SessionIDs : InMap(s)' /\ m_allSessionMap'[s].removeTag}
<1>1. old \subseteq new
  BY DEF RemovingStays, Removing
<1>2. new = old \cup new /\ new \in SUBSET SessionIDs
  BY <1>1
<1>3. Contract!Leave
  BY <1>2 DEF Contract!Leave, InMap
<1> QED BY <1>3 DEF Contract!Next

(* The loop thread's steps but the deletion tell the application nothing.  *)
LEMMA LoopThreadTells ==
    ASSUME ClientInv, TellInv, app # "gone",
           \/ ExecuteOperation /\ ~ExecuteDeleteSession
           \/ OnClientUpdate \/ Peer \/ Run
           \/ \E s \in SessionIDs :
                 \/ \E outcome \in Outcomes : KernelConnect(s, outcome)
                 \/ \E readStarted \in BOOLEAN : OnSocketConnect(s, readStarted)
                 \/ OnSessionClose(s)
    PROVE  TellInv' /\ RemovingStays /\ UNCHANGED <<told, closed, app, m_isStop>>
<1>1. UNCHANGED <<told, closed, app, m_isStop>>
  <2>1. CASE ExecuteOperation /\ ~ExecuteDeleteSession
    <3>1. TakeOperations => UNCHANGED <<told, closed, app, m_isStop>>
      BY DEF TakeOperations, appVars
    <3>2. ASSUME NEW type, Executing(type) PROVE UNCHANGED <<told, closed, app, m_isStop>>
      BY <3>2 DEF Executing, appVars
    <3>3. /\ ExecuteSendData => Executing("SENDDATA")
          /\ ExecuteDisconnectOp => Executing("DISCONNECT")
          /\ CreateNewConnect => Executing("CONNECT")
          /\ ExecuteSetAutoConnect => Executing("SET_AUTO_CONNECT")
          /\ ExecuteClientClose => Executing("CLIENT_CLOSE")
          /\ ExecuteRemoveSession => Executing("REMOVE_SESSION")
      BY DEF ExecuteSendData, ExecuteDisconnectOp, CreateNewConnect, ExecuteSetAutoConnect,
             ExecuteClientClose, ExecuteRemoveSession
    <3> QED BY <2>1, <3>1, <3>2, <3>3 DEF ExecuteOperation
  <2>2. CASE OnClientUpdate \/ Run
    <3>1. OnClientUpdate => UNCHANGED <<told, closed, app, m_isStop>>
      <4>1. ASSUME NEW s \in SessionIDs, Reconnect(s)
            PROVE  UNCHANGED <<told, closed, app, m_isStop>>
        BY <4>1 DEF Reconnect, Callback, appVars
      <4>2. ClearSessions => UNCHANGED <<told, closed, app, m_isStop>>
        BY DEF ClearSessions, appVars
      <4>3. WaitExit => UNCHANGED <<told, closed, app, m_isStop>>
        BY DEF WaitExit, appVars
      <4> QED BY <4>1, <4>2, <4>3 DEF OnClientUpdate
    <3>2. Run => UNCHANGED <<told, closed, app, m_isStop>>
      BY DEF Run, RunReturns, PushExitLoop, appVars
    <3> QED BY <2>2, <3>1, <3>2
  <2>3. ASSUME NEW s \in SessionIDs,
               \/ HeartbeatLost(s) \/ OnSessionRecvData(s) \/ OnIllegalData(s)
               \/ OnIllegalHeart(s) \/ OnEof(s) \/ OnSessionClose(s)
        PROVE  UNCHANGED <<told, closed, app, m_isStop>>
    BY <2>3 DEF HeartbeatLost, OnSessionRecvData, OnIllegalData, OnIllegalHeart, OnEof,
                OnSessionClose, Callback, appVars
  <2>4. ASSUME NEW s \in SessionIDs,
               \/ \E outcome \in Outcomes : KernelConnect(s, outcome)
               \/ \E readStarted \in BOOLEAN : OnSocketConnect(s, readStarted)
        PROVE  UNCHANGED <<told, closed, app, m_isStop>>
    BY <2>4 DEF KernelConnect, OnSocketConnect, Callback, appVars
  <2> QED BY <2>1, <2>2, <2>3, <2>4 DEF Peer
<1>2. TellInv' /\ RemovingStays
  BY OperationTells, CallbacksTell, ConnectTells, LoopEndTells DEF OnClientUpdate, Peer
<1> QED BY <1>1, <1>2

(* A callback of the application is one that the contract has. *)
LEMMA DispatchKeepsContract ==
    ASSUME ClientInv, TypeOK', TellInv, DispatchMsg
    PROVE  [Contract!Next]_(Contract!vars)
<1> DEFINE m == Head(m_msgDispatchQue)
           s == m.sessionID
<1>1. /\ app = "polling" /\ app' = "polling"
      /\ UNCHANGED <<m_isStop, closed, m_allSessionMap>>
      /\ {t \in SessionIDs : InMap(t)' /\ m_allSessionMap'[t].removeTag}
            = {t \in SessionIDs : InMap(t) /\ m_allSessionMap[t].removeTag}
  BY DEF DispatchMsg, loopVars, InMap
<1>2. /\ Messages # <<>> /\ 1 \in DOMAIN Messages /\ Messages[1] = m /\ m \in NetThreadMsg
  <2>1. m_msgDispatchQue \in Seq(NetThreadMsg) /\ m_msgQue \in Seq(NetThreadMsg)
    BY DEF ClientInv, TypeOK
  <2>2. Messages # <<>> /\ Head(Messages) = m /\ Messages \in Seq(NetThreadMsg)
    BY <2>1, HeadTailConcat, StreamTypes DEF DispatchMsg, Messages, ClientInv
  <2> QED BY <2>2, TailIndex
<1>3. ~closed
  BY <1>2 DEF ClientInv, ExitInv
<1>4. CASE m.type = "EXIT_LOOP"
  <2>1. told' = told
    BY <1>4 DEF DispatchMsg
  <2> QED BY <1>1, <2>1 DEF Contract!vars
<1>5. CASE m.type # "EXIT_LOOP"
  <2>1. s \in SessionIDs
    BY <1>2, <1>5 DEF NetThreadMsg
  <2>2. told' = [told EXCEPT ![s] = Told(m.type)]
    BY <1>5 DEF DispatchMsg
  <2>3. Contract!Tell(s, Told(m.type))
    BY <1>1, <1>3, <2>2 DEF Contract!Tell
  <2>4. May(told[s], m.type, m_allSessionMap[s], m_isStop)
    BY <2>1, DispatchTells
  <2>5. m_allSessionMap[s].inMap
    BY <1>2, <2>1 DEF ClientInv, SessionInv
  <2>6. m.type = "REMOVE_SESSION" => Leaving(m_allSessionMap[s])
    BY <1>2, <2>1 DEF ClientInv, SessionInv, IsRemoval
  <2> HIDE DEF m, s
  <2>7. CASE m.type = "CONNECT"
    BY <2>1, <2>3, <2>4, <2>7 DEF May, Online, Told, Contract!Connected, Contract!Next
  <2>8. CASE m.type \in {"CONNECT_FAIL", "CONNECT_TIMOUT"}
    <3>1. Told(m.type) = "failed"
      BY <2>8 DEF Told
    <3> QED BY <2>1, <2>3, <2>4, <2>8, <3>1 DEF May, Online, Contract!Failed, Contract!Next
  <2>9. CASE m.type = "RECV_DATA"
    BY <2>1, <2>3, <2>4, <2>9 DEF May, Online, Told, Contract!Received, Contract!Next
  <2>10. CASE m.type = "DIS_CONNECT"
    <3>1. Told(m.type) = "down"
      BY <2>10 DEF Told
    <3>2. Contract!Disconnected(s)
      BY <2>1, <2>3, <2>4, <2>5, <2>10, <3>1 DEF May, Online, Contract!Disconnected, InMap
    <3> QED BY <2>1, <3>2 DEF Contract!Next
  <2>11. CASE m.type = "REMOVE_SESSION"
    <3>1. Told(m.type) = "removed"
      BY <2>11 DEF Told
    <3>2. Contract!Removed(s)
      BY <2>1, <2>3, <2>4, <2>6, <2>11, <3>1 DEF May, Contract!Removed, InMap, Leaving
    <3> QED BY <2>1, <3>2 DEF Contract!Next
  <2>12. m.type \in NetThreadMsgType
    BY <1>2 DEF NetThreadMsg, m
  <2> QED BY <1>5, <2>7, <2>8, <2>9, <2>10, <2>11, <2>12 DEF NetThreadMsgType, m
<1> QED BY <1>4, <1>5

(* Behind EXIT_LOOP nothing is queued and no session is left: of each that *)
(* the application knows, its removal was the last word.                   *)
LEMMA AllRemoved ==
    ASSUME ClientInv, TellInv, ClientCloseCall
    PROVE  m_isStop /\ \A s \in SessionIDs : told[s] \in {"none", "removed"}
<1>1. Messages = <<>> /\ loop = "exited" /\ app # "gone"
  BY DEF ClientCloseCall, ClientInv, ExitInv
<1>2. m_clientStage \in {"WAIT_EXIT", "STOP"} /\ \A s \in SessionIDs : ~m_allSessionMap[s].inMap
  BY <1>1 DEF ClientInv, StageInv, InMap
<1>3. m_isStop
  BY <1>2 DEF ClientInv, StageInv, CloseOrder
<1>4. ASSUME NEW s \in SessionIDs PROVE told[s] \in {"none", "removed"}
  <2>1. PICK w \in Words :
           /\ Leads(told[s], s, Messages, m_allSessionMap[s], m_isStop, w)
           /\ LastWord(w, m_allSessionMap[s], m_isStop)
    BY <1>1 DEF TellInv, WordInv
  <2>2. w \in {"none", "removed"}
    BY <1>2, <2>1 DEF LastWord
  <2>3. Len(Messages) = 0
    BY <1>1
  <2>4. w = told[s]
    BY <2>1, <2>3 DEF Leads
  <2> QED BY <2>2, <2>4
<1> QED BY <1>3, <1>4

(* A client that is deleted has a loop thread that has ended. *)
GoneInv == app = "gone" => loop = "exited"

(* Nothing happens any more in it. *)
LEMMA GoneForEver ==
    ASSUME ClientInv, GoneInv, app = "gone", [Next]_vars
    PROVE  UNCHANGED vars
<1>1. loop = "exited"
  BY DEF GoneInv
<1>2. ASSUME NEW s \in SessionIDs PROVE m_allSessionMap[s].tcp # "connecting"
  <2>1. ~m_allSessionMap[s].inMap /\ SocketInv(m_allSessionMap[s])
    BY <1>1 DEF ClientInv, StageInv, InMap
  <2> QED BY <2>1 DEF SocketInv
<1>3. /\ ~ApiCall /\ ~UpdateFrame /\ ~DeleteReturns
      /\ ~\E s \in SessionIDs : \E outcome \in Outcomes : KernelConnect(s, outcome)
  BY <1>2 DEF ApiCall, Connect, Disconnect, RemoveSession, Send, SetAutoReconnect,
     SetAutoReconnectBySessionID, Call, CloseClient, Delete, UpdateFrame, GetThreadMsg,
     DispatchMsg, ClientCloseCall, DeleteReturns, KernelConnect
<1>4. ~ExecuteOperation
  BY <1>1 DEF ExecuteOperation, TakeOperations, LoopFree, ExecuteSendData, ExecuteDisconnectOp,
     CreateNewConnect, ExecuteSetAutoConnect, ExecuteClientClose, ExecuteRemoveSession,
     ExecuteDeleteSession, Executing
<1>5. ~OnClientUpdate /\ ~Peer /\ ~Run
  BY <1>1 DEF OnClientUpdate, Reconnect, ClearSessions, WaitExit, Peer, HeartbeatLost,
     OnSessionRecvData, OnIllegalData, OnIllegalHeart, OnEof, Callback, LoopFree, Run,
     RunReturns, PushExitLoop
<1>6. ~\E s \in SessionIDs :
         (\E readStarted \in BOOLEAN : OnSocketConnect(s, readStarted)) \/ OnSessionClose(s)
  BY <1>1 DEF OnSocketConnect, OnSessionClose, Callback, LoopFree
<1> QED BY <1>3, <1>4, <1>5, <1>6 DEF Next, Finished

(* The destructor returns when the thread has ended, and it stays so.      *)
LEMMA GoneStep ==
    ASSUME GoneInv, [Next]_vars, ClientInv
    PROVE  GoneInv'
<1>1. CASE app = "gone"
  <2>1. UNCHANGED vars
    BY <1>1, GoneForEver
  <2> QED BY <2>1 DEF vars, appVars, loopVars, GoneInv
<1>2. CASE app # "gone" /\ ~DeleteReturns
  <2>1. CASE ApiCall \/ UpdateFrame
    BY <1>2, <2>1 DEF GoneInv, ApiCall, Connect, Disconnect, RemoveSession, Send, SetAutoReconnect,
       SetAutoReconnectBySessionID, Call, CloseClient, Delete, UpdateFrame, GetThreadMsg,
       DispatchMsg, ClientCloseCall
  <2>2. CASE ExecuteOperation
    BY <1>2, <2>2 DEF GoneInv, ExecuteOperation, TakeOperations, ExecuteSendData,
       ExecuteDisconnectOp, CreateNewConnect, ExecuteSetAutoConnect, ExecuteClientClose,
       ExecuteRemoveSession, ExecuteDeleteSession, Executing, appVars
  <2>3. CASE OnClientUpdate \/ Peer \/ Run
    BY <1>2, <2>3 DEF GoneInv, OnClientUpdate, Reconnect, ClearSessions, WaitExit, Peer,
       HeartbeatLost, OnSessionRecvData, OnIllegalData, OnIllegalHeart, OnEof, Callback, Run,
       RunReturns, PushExitLoop, appVars
  <2>4. CASE \E s \in SessionIDs :
                \/ \E outcome \in Outcomes : KernelConnect(s, outcome)
                \/ \E readStarted \in BOOLEAN : OnSocketConnect(s, readStarted)
                \/ OnSessionClose(s)
    BY <1>2, <2>4 DEF GoneInv, KernelConnect, OnSocketConnect, OnSessionClose, Callback, appVars
  <2>5. CASE UNCHANGED vars
    BY <1>2, <2>5 DEF GoneInv, vars, appVars
  <2> QED BY <1>2, <2>1, <2>2, <2>3, <2>4, <2>5 DEF Next, Finished
<1>3. CASE DeleteReturns
  BY <1>3 DEF DeleteReturns, GoneInv
<1> QED BY <1>1, <1>2, <1>3

(* Every step keeps TellInv, and is a step of the contract or a stutter. *)
LEMMA ContractStep ==
    ASSUME ClientInv, TypeOK', TellInv, GoneInv, [Next]_vars
    PROVE  TellInv' /\ [Contract!Next]_(Contract!vars)
<1>1. CASE UNCHANGED vars
  BY <1>1 DEF vars, appVars, loopVars, TellInv, Messages, Operations, Contract!vars, InMap
<1>2. CASE ApiCall
  <2>1. /\ TellInv' /\ app # "gone" /\ app' # "gone" /\ (m_isStop => m_isStop')
        /\ UNCHANGED <<told, closed, m_allSessionMap>>
    BY <1>2, ApiCallTells
  <2>2. m_isStop \in BOOLEAN /\ m_isStop' \in BOOLEAN
    BY DEF ClientInv, TypeOK
  <2>3. CASE m_isStop' = m_isStop
    <3>1. RemovingStays
      BY <2>1 DEF RemovingStays, Removing, InMap
    <3> QED BY <2>1, <2>3, <3>1, SilentStep
  <2>4. CASE m_isStop' # m_isStop
    <3>1. m_isStop' = TRUE
      BY <2>1, <2>2, <2>4
    <3>2. Contract!Close
      BY <2>1, <3>1 DEF Contract!Close, InMap
    <3> QED BY <2>1, <3>2 DEF Contract!Next
  <2> QED BY <2>3, <2>4
<1>3. CASE GetThreadMsg
  <2>1. Messages' = Messages
    <3>1. Messages = m_msgQue /\ Messages' = m_msgQue
      BY <1>3, ConcatEmptySeq DEF GetThreadMsg, Messages, ClientInv, TypeOK
    <3> QED BY <3>1
  <2>2. Operations' = Operations /\ UNCHANGED <<m_allSessionMap, told, closed, app, m_isStop>>
    BY <1>3 DEF GetThreadMsg, Operations, loopVars
  <2> QED BY <2>1, <2>2 DEF TellInv, Contract!vars, InMap
<1>4. CASE DispatchMsg
  BY <1>4, DispatchTells, DispatchKeepsContract
<1>5. CASE ClientCloseCall
  <2>1. Messages' = Messages /\ Operations' = Operations
           /\ UNCHANGED <<m_allSessionMap, told, app, m_isStop>> /\ closed' = TRUE
    BY <1>5 DEF ClientCloseCall, Messages, Operations, loopVars
  <2>2. m_isStop /\ \A s \in SessionIDs : told[s] \in {"none", "removed"}
    BY <1>5, AllRemoved
  <2>3. Contract!Closed
    BY <2>1, <2>2 DEF Contract!Closed, InMap
  <2> QED BY <2>1, <2>3 DEF TellInv, Contract!Next
<1>6. CASE DeleteReturns
  <2>1. /\ app' = "gone" /\ UNCHANGED <<told, closed, m_isStop>>
        /\ \A s \in SessionIDs : ~m_allSessionMap'[s].inMap
    BY <1>6 DEF DeleteReturns, NoEntry
  <2>2. m_isStop
    <3>1. m_clientStage \in {"WAIT_EXIT", "STOP"}
      BY <1>6 DEF DeleteReturns, ClientInv, StageInv
    <3> QED BY <3>1 DEF ClientInv, StageInv, CloseOrder
  <2>3. {s \in SessionIDs : InMap(s)' /\ m_allSessionMap'[s].removeTag} = {}
    BY <2>1 DEF InMap
  <2>4. Contract!Delete
    BY <2>1, <2>2, <2>3 DEF Contract!Delete, InMap
  <2> QED BY <2>1, <2>4 DEF TellInv, Contract!Next
<1>7. CASE app = "gone"
  BY <1>1, <1>7, GoneForEver
<1>8. CASE ExecuteDeleteSession /\ app # "gone"
  <2>1. /\ TellInv' /\ told[curOperation.sessionID] = "removed"
        /\ \A s \in SessionIDs :
              IF s = curOperation.sessionID THEN ~Removing(s)' ELSE Removing(s)' = Removing(s)
    BY <1>8, DeletionTells
  <2>2. PICK t \in SessionIDs : t = curOperation.sessionID
    BY <1>8, TargetType DEF ExecuteDeleteSession, ClientInv
  <2>3. UNCHANGED <<told, closed, app, m_isStop>>
    BY <1>8 DEF ExecuteDeleteSession, Executing, appVars
  <2>4. {s \in SessionIDs : InMap(s)' /\ m_allSessionMap'[s].removeTag}
             = {s \in SessionIDs : InMap(s) /\ m_allSessionMap[s].removeTag} \ {t}
    BY <2>1, <2>2 DEF Removing
  <2>5. Contract!Forget(t)
    BY <2>1, <2>2, <2>3, <2>4 DEF Contract!Forget, InMap
  <2> QED BY <2>1, <2>5 DEF Contract!Next
<1>9. CASE /\ app # "gone"
           /\ \/ ExecuteOperation /\ ~ExecuteDeleteSession
              \/ OnClientUpdate \/ Peer \/ Run
              \/ \E s \in SessionIDs :
                    \/ \E outcome \in Outcomes : KernelConnect(s, outcome)
                    \/ \E readStarted \in BOOLEAN : OnSocketConnect(s, readStarted)
                    \/ OnSessionClose(s)
  <2>1. TellInv' /\ RemovingStays /\ UNCHANGED <<told, closed, app, m_isStop>>
    BY <1>9, LoopThreadTells
  <2> QED BY <1>9, <2>1, SilentStep
<1>10. ExecuteDeleteSession => ExecuteOperation
  BY DEF ExecuteOperation
<1> QED BY <1>1, <1>2, <1>3, <1>4, <1>5, <1>6, <1>7, <1>8, <1>9, <1>10
        DEF Next, UpdateFrame, Finished

(* At first nobody was told anything and nobody is leaving.                *)
LEMMA ContractInit == Init => Contract!Init
<1> SUFFICES ASSUME Init PROVE Contract!Init
  OBVIOUS
<1>1. {s \in SessionIDs : InMap(s) /\ m_allSessionMap[s].removeTag} = {}
  BY DEF Init, InMap, NoEntry
<1> QED BY <1>1 DEF Init, Contract!Init, InMap

(* The client keeps what ClientContract promises to the application that   *)
(* polls it: whatever the two threads do in between, the callbacks of      *)
(* updateFrame() come in the contract's order, and the client is closed    *)
(* only when every session it spoke of is removed.                         *)
THEOREM KeepsContract == Spec => ContractSpec
<1>1. Init => TellInv /\ GoneInv /\ Contract!Init
  BY InitTells, ContractInit DEF Init, GoneInv
<1>2. ClientInv /\ ClientInv' /\ TellInv /\ GoneInv /\ [Next]_vars
        => TellInv' /\ GoneInv' /\ [Contract!Next]_(Contract!vars)
  BY ContractStep, GoneStep DEF ClientInv
<1>3. Spec => []ClientInv
  BY Safety
<1> QED BY <1>1, <1>2, <1>3, PTL DEF Spec, ContractSpec, Contract!Spec
=============================================================================
