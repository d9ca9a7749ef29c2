--------------------------- MODULE MCServiceBus ---------------------------
(* Two processes that share an endpoint, as in a rolling restart, and one  *)
(* before them in the order of the registry.                               *)
EXTENDS ServiceBus

MCIds == 1 .. 3
MCEndPoint == <<1, 2, 2>>
===========================================================================
