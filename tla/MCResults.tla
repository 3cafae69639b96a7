------------------------------ MODULE MCResults ------------------------------
(* Two runs that share the scratch directory; runs are interchangeable,    *)
(* and so are the output directories.                                      *)
EXTENDS Results

\* Two of the 120 orders: what is measured first is measured last.
BothWays == {<<1, 2, 3, 4, 5>>, <<5, 4, 3, 2, 1>>}

Interchangeable == Permutations(Runs) \cup Permutations(Outputs)
=============================================================================
