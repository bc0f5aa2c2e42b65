------------------------------ MODULE TCPSession ------------------------------
(***************************************************************************)
(* What TCPSession (tcp/TCPSession.cpp) and the TCPSocket under it do on   *)
(* the loop thread, as functions of a session's data.  Clients and servers *)
(* keep more in that data; these fields are the session's own:             *)
(*   isOnline  m_isOnline                                                  *)
(*   tcp       what m_tcp of the socket is, "null" for NULL                *)
(*   closing   a uv_close was made whose callback has not run              *)
(***************************************************************************)

(* A faulty variant of ExecuteDisconnect that no action uses. *)
GoOffline(data) == [data EXCEPT !.isOnline = FALSE]

(* TCPSocket::shutdownSocket.  m_tcp is NULL from here on; the callback    *)
(* runs at the end of the loop's iteration.                                *)
SocketDisconnect(data) ==
    [data EXCEPT !.tcp = "null", !.closing = @ \/ data.tcp # "null"]

(* TCPSession::executeDisconnect: nothing unless online *)
ExecuteDisconnect(data) ==
    IF data.isOnline THEN SocketDisconnect([data EXCEPT !.isOnline = FALSE]) ELSE data

(* TCPSession::executeSend; wrote is what uv_write answers *)
ExecuteSend(data, wrote) ==
    IF data.isOnline /\ (data.tcp = "null" \/ ~wrote) THEN ExecuteDisconnect(data) ELSE data

(* TCPSession::on_socket_close *)
OnSocketClose(data) == [data EXCEPT !.closing = FALSE, !.isOnline = FALSE]
=============================================================================
