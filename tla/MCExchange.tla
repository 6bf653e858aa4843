------------------------------ MODULE MCExchange ------------------------------
(* An exchange of every type of message, with null strings and strings of the
   length of a MAC address. *)
EXTENDS Exchange

AllTypes == MsgType
=============================================================================
