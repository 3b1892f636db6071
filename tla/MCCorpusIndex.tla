--------------------------- MODULE MCCorpusIndex ---------------------------
(* Small instance of CorpusIndex for TLC. *)
EXTENDS CorpusIndex

\* <<1, 2>> and <<2, 1>> collide
MCHash(g) == g[1] + g[2]

\* a stream too short to index whose token is no length of a frame, repeats,
\* a collision, one that fills the log
MCStreams == {<<6>>, <<1, 2, 1>>, <<2, 1, 2, 2>>, <<1, 1, 1, 2, 1>>}
=============================================================================
