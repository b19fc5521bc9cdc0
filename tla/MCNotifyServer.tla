--------------------------- MODULE MCNotifyServer ---------------------------
(***************************************************************************)
(* Instances of NotifyServer for TLC: u1 is a unary call, b1 a stream.     *)
(***************************************************************************)
EXTENDS NotifyServer, TLC

CONSTANTS u1, b1

\* Five is a multiple of one limit of a batch, four of several.
TheReceivers == [c \in Calls |-> IF c \in Streams THEN 5 ELSE 4]
=============================================================================
