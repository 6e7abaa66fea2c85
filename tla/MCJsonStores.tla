---------------------------- MODULE MCJsonStores ----------------------------
(***************************************************************************)
(* Model values for the runs of JsonStores.                                *)
(***************************************************************************)
EXTENDS JsonStores, TLC

CONSTANTS w1, w2, g, t, u, x

TwoWorkers == {w1, w2}
OneAgent   == {g}
OneTriple  == {t}
TwoTriples == {t, u}
OneText    == {x}

WorkerSymmetry == Permutations(TwoWorkers)
BothSymmetries == WorkerSymmetry \cup Permutations(TwoTriples)

=============================================================================
