----------------------------- MODULE MCWebSocket -----------------------------
(* An instance of the sockets for TLC: one WebSocket, one WebSocketStream. *)
EXTENDS WebSocket
=============================================================================
