------------------------------- MODULE MCArca -------------------------------
(* One engine thread; other clients pipeline two commands and a malformed one, *)
(* or send a length that is no long                                            *)
EXTENDS Arca

MCInputs == {<<"*2", "DEL", "k1", "PING", "*bad">>, <<"*huge">>}

MCArchived == {<<"k1", "v1">>}
=============================================================================
