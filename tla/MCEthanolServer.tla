--------------------------- MODULE MCEthanolServer ---------------------------
(* The message server with two threads and two or three connections.        *)
EXTENDS EthanolServer
=============================================================================
