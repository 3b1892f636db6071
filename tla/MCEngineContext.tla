--------------------------- MODULE MCEngineContext ---------------------------
(* Small instances of EngineContext for TLC. *)
EXTENDS EngineContext

\* conversations that extend each other, a rival of the same length, one
\* too long for the context
MCPrompts == {<<1>>, <<1, 2>>, <<1, 2, 1>>, <<1, 2, 1, 2>>, <<2, 2, 1, 1, 1>>}

MCWarmPrompts == {<<1, 2, 2>>, <<2, 1>>}
=============================================================================
