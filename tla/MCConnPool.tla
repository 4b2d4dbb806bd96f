---------------------------- MODULE MCConnPool -----------------------------
(* Small instances of ConnPool for TLC.                                    *)
EXTENDS ConnPool, TLC

UserSymmetry == Permutations(Users)
=============================================================================
