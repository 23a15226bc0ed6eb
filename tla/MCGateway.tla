----------------------------- MODULE MCGateway -----------------------------
(***************************************************************************)
(* Gateway for TLC: two requests that broadcast at the same time and one   *)
(* connection, on a channel of two slots instead of 128.                   *)
(***************************************************************************)
EXTENDS Gateway

CONSTANTS handler1, handler2, client1

MCHandlers == {handler1, handler2}
MCClients  == {client1}

=============================================================================
