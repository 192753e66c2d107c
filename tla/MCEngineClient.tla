--------------------------- MODULE MCEngineClient ---------------------------
(***************************************************************************)
(* Values for the constants of EngineClient that a configuration file      *)
(* cannot write down.                                                      *)
(***************************************************************************)
EXTENDS EngineClient

(* No upgrade, one behind a name the client skips, and one to polling,     *)
(* which only a client that started on a websocket follows.                *)
AllOffers == {<<>>, <<"webtransport", "websocket">>, <<"polling">>}
OnlyUpgrade == {<<"websocket">>}
NoOffer == {<<>>}
=============================================================================
