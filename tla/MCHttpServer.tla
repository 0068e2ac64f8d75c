---------------------------- MODULE MCHttpServer ----------------------------
(* The instance of the HTTP server for TLC.                                *)
EXTENDS HttpServer
=============================================================================
