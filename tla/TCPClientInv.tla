----------------------------- MODULE TCPClientInv -----------------------------
(***************************************************************************)
(* The inductive invariant behind the safety properties of TCPClient.  It  *)
(* speaks of the two streams, Messages and Operations, in which the two    *)
(* threads' queues are put end to end: moving a batch changes neither.     *)
(***************************************************************************)
EXTENDS TCPClient

(* The socket of a session is in step with its connectState: nothing of it *)
(* is under way in libuv once the session is disconnected.                 *)
SocketInv(data) ==
    /\ data.connectState = "DISCONNECT" =>
          data.tcp \in {"null", "idle"} /\ ~data.closing /\ ~data.isOnline
    /\ data.connectState = "CONNECTING" =>
          /\ data.tcp \in {"connecting", "connected", "refused", "timedout"}
          /\ ~data.closing /\ ~data.isOnline
    /\ data.connectState \in {"CONNECT", "DISCONNECTING"} =>
          IF data.closing THEN data.tcp = "null" ELSE data.tcp = "open"
    /\ ~data.inMap => data.connectState = "DISCONNECT" /\ ~data.removeTag

(* A session whose removal was announced, or is an orphan *)
Leaving(data) == data.inMap /\ data.removeTag /\ data.connectState = "DISCONNECT"

IsRemoval(m, s)   == m.sessionID = s /\ m.type = "REMOVE_SESSION"
IsDeletion(op, s) == op.sessionID = s /\ op.type = "DELETE_SESSION"

(* A session in the streams M and O: what is said of it is said of the     *)
(* object in the map; its removal is the last of that and the only one;    *)
(* its deletion comes after all of that, and once.                         *)
SessionInv(s, M, O, data) ==
    /\ \A i \in DOMAIN M : M[i].sessionID = s => data.inMap /\ M[i].incarnation = data.incarnation
    /\ \A i \in DOMAIN M : IsRemoval(M[i], s) =>
          /\ Leaving(data)
          /\ \A j \in DOMAIN M : M[j].sessionID = s => j <= i
          /\ \A j \in DOMAIN O : ~IsDeletion(O[j], s)
    /\ \A i \in DOMAIN O : IsDeletion(O[i], s) =>
          /\ Leaving(data)
          /\ \A j \in DOMAIN M : M[j].sessionID # s
          /\ \A j \in DOMAIN O : IsDeletion(O[j], s) => j = i

(* CLIENT_CLOSE is behind every CONNECT of the operations O. *)
CloseOrder(O, isStop, stage) ==
    /\ \A i \in DOMAIN O :
          O[i].type = "CLIENT_CLOSE" =>
             isStop /\ \A j \in DOMAIN O : i < j => O[j].type # "CONNECT"
    /\ stage # "START" => isStop /\ \A i \in DOMAIN O : O[i].type # "CONNECT"

(* The stages follow CLIENT_CLOSE and the sweep. *)
StageInv ==
    /\ CloseOrder(Operations, m_isStop, m_clientStage)
    /\ m_clientStage \in {"WAIT_EXIT", "STOP"} => \A s \in SessionIDs : ~InMap(s)
    /\ loop # "running" => m_clientStage \in {"WAIT_EXIT", "STOP"}
    /\ app # "polling" => m_msgDispatchQue = <<>>

(* EXIT_LOOP is the last that the loop thread does. *)
ExitInv ==
    /\ \A i \in DOMAIN Messages : Messages[i].type = "EXIT_LOOP" => i = Len(Messages) /\ loop = "exited"
    /\ closeClientTag \/ closed => Messages = <<>> /\ loop = "exited"

(* The inductive invariant: sockets, streams, stages and the end.          *)
ClientInv ==
    /\ TypeOK
    /\ \A s \in SessionIDs :
          /\ SocketInv(m_allSessionMap[s])
          /\ SessionInv(s, Messages, Operations, m_allSessionMap[s])
    /\ StageInv
    /\ ExitInv
=============================================================================
