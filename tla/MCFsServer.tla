---------------------------- MODULE MCFsServer -----------------------------
(* Small instances of FsServer for TLC.                                    *)
EXTENDS FsServer

Conf(s, w) == [shards |-> s, writers |-> w]

OneByTwo == Conf(1, 2)
Reloads == {OneByTwo, Conf(2, 1)}      \* more shards, fewer writers in each

(* Keys of even and odd checksum.                                          *)
Keys == [r \in Requests |-> r]
=============================================================================
