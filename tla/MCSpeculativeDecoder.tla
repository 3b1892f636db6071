------------------------ MODULE MCSpeculativeDecoder ------------------------
(* Small instance of SpeculativeDecoder for TLC. *)
EXTENDS SpeculativeDecoder, Folds

Sum(h) == MapThenFoldSet(LAMBDA x, y : x + y, 0, LAMBDA i : h[i],
                         LAMBDA S : CHOOSE i \in S : TRUE, DOMAIN h)

\* A target that looks at the whole sequence: sometimes certain, sometimes
\* torn, sometimes ready to end (3 and 4 are end-of-generation tokens).
MCSupport(h) == CASE Sum(h) % 3 = 0 -> {1}
                  [] Sum(h) % 3 = 1 -> {1, 2}
                  [] Sum(h) % 3 = 2 -> IF Len(h) = 3 THEN {2, 4} ELSE {2, 3}

\* a conversation that grows, a rival, a prompt that repeats itself around
\* an end-of-generation token
MCPrompts == {<<1>>, <<1, 2>>, <<1, 2, 2, 1>>, <<2, 3, 2>>}
=============================================================================
