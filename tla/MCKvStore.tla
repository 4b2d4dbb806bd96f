----------------------------- MODULE MCKvStore -----------------------------
(* Small instances of KvStore for TLC.                                     *)
EXTENDS KvStore, TLC

Plain == [gzip |-> FALSE, gunzip |-> FALSE, compress |-> FALSE]
Reloads == {Plain, [Plain EXCEPT !.compress = TRUE]}

Symmetry == Permutations(Conns)

OneField == {<<"f">>}
=============================================================================
