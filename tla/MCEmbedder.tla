------------------------------ MODULE MCEmbedder ------------------------------
(***************************************************************************)
(* Model values for the run of Embedder.                                   *)
(***************************************************************************)
EXTENDS Embedder

CONSTANTS r1, r2, a, b

TwoRepos == {r1, r2}
TwoTexts == {a, b}

=============================================================================
