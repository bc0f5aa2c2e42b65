----------------------------- MODULE TCPServerInv -----------------------------
(***************************************************************************)
(* The inductive invariant behind the safety properties of TCPServer.  It  *)
(* speaks of the two streams, Messages and Operations, in which the two    *)
(* threads' queues are put end to end: moving a batch changes neither.     *)
(***************************************************************************)
EXTENDS TCPServer

(* A session whose socket is closed and that only its release can free *)
Gone(data) ==
    data.inMap /\ data.isInvalid /\ ~data.isOnline /\ data.tcp = "null" /\ ~data.closing

(* The life of an entry: free, online with an open socket, closing (and    *)
(* still online when the peer ended the stream), or gone.                  *)
SocketInv(data) ==
    \/ data = NoEntry
    \/ data.inMap /\ ~data.isInvalid /\ data.isOnline /\ data.tcp = "open" /\ ~data.closing
    \/ data.inMap /\ ~data.isInvalid /\ data.tcp = "null" /\ data.closing
    \/ Gone(data)

IsNew(m, s)     == m.sessionID = s /\ m.type = "NEW_CONNECT"
IsGoodbye(m, s) == m.sessionID = s /\ m.type = "DIS_CONNECT"

(* A session in the streams M and O, of which the application was told t   *)
(* last: its goodbye is the last word of it and the only one, its release  *)
(* comes after all of that and once, and a session that is gone has one or *)
(* the other.                                                              *)
LeaveInv(s, M, O, data, t) ==
    /\ \A i \in DOMAIN M : M[i].sessionID = s => data.inMap /\ t # "left"
    /\ \A i \in DOMAIN M : IsGoodbye(M[i], s) =>
          /\ Gone(data)
          /\ \A j \in DOMAIN M : M[j].sessionID = s => j <= i
          /\ \A j \in DOMAIN O : O[j] # Release(s)
    /\ \A i \in DOMAIN O : O[i] = Release(s) =>
          /\ Gone(data) /\ t = "left"
          /\ \A j \in DOMAIN M : M[j].sessionID # s
          /\ \A j \in DOMAIN O : O[j] = Release(s) => j = i
    /\ Gone(data) => \/ \E i \in DOMAIN M : IsGoodbye(M[i], s)
                     \/ \E i \in DOMAIN O : O[i] = Release(s)

(* NEW_CONNECT is the first word of a session, and until the application   *)
(* has it, it is on its way; afterwards the session stays until it left.   *)
ComeInv(s, M, data, t) ==
    /\ \A i \in DOMAIN M : IsNew(M[i], s) =>
          t = "none" /\ \A j \in DOMAIN M : M[j].sessionID = s => i <= j
    /\ t = "none" /\ data.inMap => \E i \in DOMAIN M : IsNew(M[i], s)
    /\ t \in {"new", "talking"} => data.inMap
    /\ t = "left" /\ data.inMap => Gone(data)

(* The entry of a session, and what is said of it *)
SessionInv(s, M, O, data, t) ==
    SocketInv(data) /\ LeaveInv(s, M, O, data, t) /\ ComeInv(s, M, data, t)

(* Ids that were not given yet are unknown everywhere. *)
FreshInv ==
    \A s \in SessionIDs : s >= m_sessionID => m_allSession[s] = NoEntry /\ told[s] = "none"

(* STOP_SERVER is queued once, when the server no longer counts as started. *)
StopInv(O, start, stage) ==
    /\ \A i \in DOMAIN O : O[i].type = "STOP_SERVER" =>
          ~start /\ stage = "RUN" /\ \A j \in DOMAIN O : O[j].type = "STOP_SERVER" => j = i
    /\ start => stage = "RUN"

(* The stages, the loop and the listening socket go together. *)
StageInv ==
    /\ StopInv(Operations, m_start, m_serverStage)
    /\ m_serverStage = "RUN" => loop = "running" /\ m_server = "listening"
    /\ m_serverStage = "WAIT_CLOSE_SERVER_SOCKET" => loop = "running" /\ m_server = "closing"
    /\ m_serverStage = "CLEAR" => loop = "running" /\ m_server = "null"
    /\ m_serverStage = "WAIT_SESSION_CLOSE" => loop \in {"running", "stopped"} /\ m_server = "null"
    /\ m_serverStage = "STOP" => loop \in {"none", "returned", "exited"} /\ m_server = "null"
    /\ loop \in {"stopped", "returned", "exited"} => \A s \in SessionIDs : ~InMap(s)
    /\ loop # "running" => ~idleRun
    /\ ~idleRun => m_operationDispatchQue = <<>>
    /\ app = "idle" => loop = "none"
    /\ app # "polling" => m_msgDispatchQue = <<>>
    /\ app \in {"joining", "gone"} => ~m_start

(* EXIT_LOOP is the last that the loop thread does. *)
ExitInv ==
    /\ \A i \in DOMAIN Messages : Messages[i].type = "EXIT_LOOP" => i = Len(Messages) /\ loop = "exited"
    /\ closeServerTag \/ closed => Messages = <<>> /\ loop = "exited"

(* The inductive invariant: types, sessions, stages and the end.           *)
ServerInv ==
    /\ TypeOK
    /\ \A s \in SessionIDs : SessionInv(s, Messages, Operations, m_allSession[s], told[s])
    /\ FreshInv
    /\ StageInv
    /\ ExitInv
=============================================================================
