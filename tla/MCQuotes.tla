----------------------------- MODULE MCQuotes -----------------------------
(***************************************************************************)
(* Model-checking instance of Quotes: two websocket clients, so that one  *)
(* unsubscribes while the feed walks a header that still shows it; one-   *)
(* quote channel buffers, so that both a send and a drop happen.          *)
(***************************************************************************)
EXTENDS Quotes

MCClients == {"c1", "c2"}
=============================================================================
